---------------------------- MODULE Spec2Model ----------------------------
(***************************************************************************)
(* putty-export: registry text -> parsed tree -> SSH sessions -> OpenSSH   *)
(* configuration text.                                                     *)
(*                                                                         *)
(* A Python str is the sequence of its code points (0 .. 1114111), so a    *)
(* character is a number and every str the code can take is a value.       *)
(* Str("...") is the str of a literal of printable ASCII characters.  A    *)
(* dict is a function with a finite domain; a dict whose iteration order   *)
(* matters is a sequence of [k, v] pairs with distinct keys.  A value of a *)
(* session is tagged: [t |-> "str", v |-> s] or [t |-> "int", v |-> n].    *)
(***************************************************************************)
EXTENDS Integers, Sequences, FiniteSets, TLC

VARIABLES
    d_in,       \* decoders: the drawn input [src, raw, text]
    d_fn,       \* decoders: "none", or the decoder that was applied
    d_ret,      \* decoders: what it returned
    p_lines,    \* parse_reg_file: the lines of the file
    p_i,        \* parse_reg_file: number of lines scanned
    p_state,    \* parse_reg_file: "idle" | "scan" | "returned" | "raised"
    have_key,   \* parse_reg_file: current_key is not None
    current_key,\* parse_reg_file: current_key
    result,     \* parse_reg_file: result
    keys,       \* filter_ssh_sessions: keys (ordered dict)
    skip_default_settings,
    f_i,        \* filter_ssh_sessions: number of items iterated
    f_state,    \* filter_ssh_sessions: "idle" | "loop" | "returned"
    f_result,   \* filter_ssh_sessions: result (ordered dict)
    f_kept,     \* filter_ssh_sessions: indices of keys that reached line 91
    sessions,   \* build_ssh_config: sessions (ordered dict)
    c_state,    \* build_ssh_config: "idle" | "loop" | "returned" | "raised"
    c_i,        \* build_ssh_config: number of sorted names iterated
    blocks,     \* build_ssh_config: blocks
    config,     \* build_ssh_config: the returned document
    b_name,     \* build_host_block: session_name
    b_data,     \* build_host_block: data
    b_state,    \* build_host_block: "idle" | "ready" | "returned" | "raised"
    b_proxy,    \* build_host_block: proxy, [ok, some, line]
    b_fwd,      \* build_host_block: the pairs of _parse_port_forwardings(port_fwd)
    b_lines,    \* build_host_block: lines
    b_text      \* build_host_block: the returned block

dvars == <<d_in, d_fn, d_ret>>
pvars == <<p_lines, p_i, p_state, have_key, current_key, result>>
fvars == <<keys, skip_default_settings, f_i, f_state, f_result, f_kept>>
cvars == <<sessions, c_state, c_i, blocks, config>>
bvars == <<b_name, b_data, b_state, b_proxy, b_fwd, b_lines, b_text>>
vars == <<dvars, pvars, fvars, cvars, bvars>>

-----------------------------------------------------------------------------
(* Literals *)

\* The printable ASCII characters in code point order: U+0020 to U+005F and
\* U+0061 to U+007E
PrintableLow == " !\"#$%&'()*+,-./0123456789:;<=>?@ABCDEFGHIJKLMNOPQRSTUVWXYZ[\\]^_"
PrintableHigh == "abcdefghijklmnopqrstuvwxyz{|}~"

\* The code point of each character a literal may hold
CodePoint ==
    [c \in {SubSeq(PrintableLow, i, i) : i \in 1..Len(PrintableLow)} |->
        31 + (CHOOSE i \in 1..Len(PrintableLow) : SubSeq(PrintableLow, i, i) = c)]
    @@ [c \in {SubSeq(PrintableHigh, i, i) : i \in 1..Len(PrintableHigh)} |->
        96 + (CHOOSE i \in 1..Len(PrintableHigh) : SubSeq(PrintableHigh, i, i) = c)]
    @@ [c \in {"\t", "\n", "\r"} |-> IF c = "\t" THEN 9 ELSE IF c = "\n" THEN 10 ELSE 13]

\* The str of a literal
Str(lit) == [i \in 1..Len(lit) |-> CodePoint[SubSeq(lit, i, i)]]

\* The character of a one-character literal
Cp(lit) == CodePoint[lit]

-----------------------------------------------------------------------------
(* Python str methods *)

RECURSIVE LStripSet(_, _)
LStripSet(s, cs) ==
    IF Len(s) > 0 /\ Head(s) \in cs THEN LStripSet(Tail(s), cs) ELSE s

RECURSIVE RStripSet(_, _)
RStripSet(s, cs) ==
    IF Len(s) > 0 /\ s[Len(s)] \in cs
    THEN RStripSet(SubSeq(s, 1, Len(s) - 1), cs) ELSE s

\* s.strip(chars)
StripSet(s, cs) == RStripSet(LStripSet(s, cs), cs)

\* s.startswith(p)
StartsWith(s, p) == Len(s) >= Len(p) /\ SubSeq(s, 1, Len(p)) = p

\* s[n:]
From(s, n) == SubSeq(s, n + 1, Len(s))

\* s.find(p) + 1: the 1-based position of the first occurrence, 0 if none
Find(s, p) ==
    LET hits == {i \in 1..(Len(s) - Len(p) + 1) : SubSeq(s, i, i + Len(p) - 1) = p}
    IN  IF hits = {} THEN 0 ELSE CHOOSE i \in hits : \A j \in hits : i <= j

\* p in s
Contains(s, p) == Find(s, p) > 0

\* The element of a one-element set.  Only({e(x) : x \in {v}}) is e(x) for x
\* the value of v
Only(S) == CHOOSE x \in S : TRUE

\* c is in one of the ranges <<first, last>>
InRanges(c, ranges) == \E r \in ranges : r[1] <= c /\ c <= r[2]

\* The characters for which str.isspace() holds: the ones str.strip()
\* removes and \s matches.  U+0009 to U+000D, U+001C to U+001F, U+0020,
\* U+0085, U+00A0, U+1680, U+2000 to U+200A, U+2028, U+2029, U+202F, U+205F,
\* U+3000
WhiteSpace ==
    {9, 10, 11, 12, 13, 28, 29, 30, 31, 32, 133, 160, 5760,
     8192, 8193, 8194, 8195, 8196, 8197, 8198, 8199, 8200, 8201, 8202,
     8232, 8233, 8239, 8287, 12288}

\* str.isspace() for one character
IsSpace(c) == c \in WhiteSpace

\* s.strip()
Strip(s) == RStripSet(LStripSet(s, WhiteSpace), WhiteSpace)

\* s.replace(old, new), left to right, non-overlapping
RECURSIVE Replace(_, _, _)
Replace(s, old, new) ==
    LET i == Find(s, old)
    IN  IF i = 0 THEN s
        ELSE SubSeq(s, 1, i - 1) \o new \o Replace(From(s, i + Len(old) - 1), old, new)

\* s.split(sep) for a one-character sep: a sequence of strs
RECURSIVE Split(_, _)
Split(s, sep) ==
    LET i == Find(s, sep)
    IN  IF i = 0 THEN <<s>>
        ELSE <<SubSeq(s, 1, i - 1)>> \o Split(From(s, i), sep)

\* sep.join(parts)
RECURSIVE Join(_, _)
Join(parts, sep) ==
    IF Len(parts) = 0 THEN <<>>
    ELSE IF Len(parts) = 1 THEN parts[1]
    ELSE parts[1] \o sep \o Join(Tail(parts), sep)

\* The characters with a one-character lower case form other than
\* themselves, in runs <<first, last, step, offset>>: every step-th character
\* from first to last maps to itself plus offset
LowerRuns ==
    {
      <<65, 90, 1, 32>>, <<192, 214, 1, 32>>, <<216, 222, 1, 32>>,
      <<256, 302, 2, 1>>, <<306, 310, 2, 1>>, <<313, 327, 2, 1>>,
      <<330, 374, 2, 1>>, <<376, 376, 1, -121>>, <<377, 381, 2, 1>>,
      <<385, 385, 1, 210>>, <<386, 388, 2, 1>>, <<390, 390, 1, 206>>,
      <<391, 391, 1, 1>>, <<393, 394, 1, 205>>, <<395, 395, 1, 1>>,
      <<398, 398, 1, 79>>, <<399, 399, 1, 202>>, <<400, 400, 1, 203>>,
      <<401, 401, 1, 1>>, <<403, 403, 1, 205>>, <<404, 404, 1, 207>>,
      <<406, 406, 1, 211>>, <<407, 407, 1, 209>>, <<408, 408, 1, 1>>,
      <<412, 412, 1, 211>>, <<413, 413, 1, 213>>, <<415, 415, 1, 214>>,
      <<416, 420, 2, 1>>, <<422, 422, 1, 218>>, <<423, 423, 1, 1>>,
      <<425, 425, 1, 218>>, <<428, 428, 1, 1>>, <<430, 430, 1, 218>>,
      <<431, 431, 1, 1>>, <<433, 434, 1, 217>>, <<435, 437, 2, 1>>,
      <<439, 439, 1, 219>>, <<440, 440, 1, 1>>, <<444, 444, 1, 1>>,
      <<452, 452, 1, 2>>, <<453, 453, 1, 1>>, <<455, 455, 1, 2>>,
      <<456, 456, 1, 1>>, <<458, 458, 1, 2>>, <<459, 475, 2, 1>>,
      <<478, 494, 2, 1>>, <<497, 497, 1, 2>>, <<498, 500, 2, 1>>,
      <<502, 502, 1, -97>>, <<503, 503, 1, -56>>, <<504, 542, 2, 1>>,
      <<544, 544, 1, -130>>, <<546, 562, 2, 1>>, <<570, 570, 1, 10795>>,
      <<571, 571, 1, 1>>, <<573, 573, 1, -163>>, <<574, 574, 1, 10792>>,
      <<577, 577, 1, 1>>, <<579, 579, 1, -195>>, <<580, 580, 1, 69>>,
      <<581, 581, 1, 71>>, <<582, 590, 2, 1>>, <<880, 882, 2, 1>>,
      <<886, 886, 1, 1>>, <<895, 895, 1, 116>>, <<902, 902, 1, 38>>,
      <<904, 906, 1, 37>>, <<908, 908, 1, 64>>, <<910, 911, 1, 63>>,
      <<913, 929, 1, 32>>, <<931, 939, 1, 32>>, <<975, 975, 1, 8>>,
      <<984, 1006, 2, 1>>, <<1012, 1012, 1, -60>>, <<1015, 1015, 1, 1>>,
      <<1017, 1017, 1, -7>>, <<1018, 1018, 1, 1>>, <<1021, 1023, 1, -130>>,
      <<1024, 1039, 1, 80>>, <<1040, 1071, 1, 32>>, <<1120, 1152, 2, 1>>,
      <<1162, 1214, 2, 1>>, <<1216, 1216, 1, 15>>, <<1217, 1229, 2, 1>>,
      <<1232, 1326, 2, 1>>, <<1329, 1366, 1, 48>>, <<4256, 4293, 1, 7264>>,
      <<4295, 4295, 1, 7264>>, <<4301, 4301, 1, 7264>>,
      <<5024, 5103, 1, 38864>>, <<5104, 5109, 1, 8>>,
      <<7312, 7354, 1, -3008>>, <<7357, 7359, 1, -3008>>,
      <<7680, 7828, 2, 1>>, <<7838, 7838, 1, -7615>>, <<7840, 7934, 2, 1>>,
      <<7944, 7951, 1, -8>>, <<7960, 7965, 1, -8>>, <<7976, 7983, 1, -8>>,
      <<7992, 7999, 1, -8>>, <<8008, 8013, 1, -8>>, <<8025, 8031, 2, -8>>,
      <<8040, 8047, 1, -8>>, <<8072, 8079, 1, -8>>, <<8088, 8095, 1, -8>>,
      <<8104, 8111, 1, -8>>, <<8120, 8121, 1, -8>>, <<8122, 8123, 1, -74>>,
      <<8124, 8124, 1, -9>>, <<8136, 8139, 1, -86>>, <<8140, 8140, 1, -9>>,
      <<8152, 8153, 1, -8>>, <<8154, 8155, 1, -100>>, <<8168, 8169, 1, -8>>,
      <<8170, 8171, 1, -112>>, <<8172, 8172, 1, -7>>, <<8184, 8185, 1, -128>>,
      <<8186, 8187, 1, -126>>, <<8188, 8188, 1, -9>>,
      <<8486, 8486, 1, -7517>>, <<8490, 8490, 1, -8383>>,
      <<8491, 8491, 1, -8262>>, <<8498, 8498, 1, 28>>, <<8544, 8559, 1, 16>>,
      <<8579, 8579, 1, 1>>, <<9398, 9423, 1, 26>>, <<11264, 11311, 1, 48>>,
      <<11360, 11360, 1, 1>>, <<11362, 11362, 1, -10743>>,
      <<11363, 11363, 1, -3814>>, <<11364, 11364, 1, -10727>>,
      <<11367, 11371, 2, 1>>, <<11373, 11373, 1, -10780>>,
      <<11374, 11374, 1, -10749>>, <<11375, 11375, 1, -10783>>,
      <<11376, 11376, 1, -10782>>, <<11378, 11378, 1, 1>>,
      <<11381, 11381, 1, 1>>, <<11390, 11391, 1, -10815>>,
      <<11392, 11490, 2, 1>>, <<11499, 11501, 2, 1>>, <<11506, 11506, 1, 1>>,
      <<42560, 42604, 2, 1>>, <<42624, 42650, 2, 1>>, <<42786, 42798, 2, 1>>,
      <<42802, 42862, 2, 1>>, <<42873, 42875, 2, 1>>,
      <<42877, 42877, 1, -35332>>, <<42878, 42886, 2, 1>>,
      <<42891, 42891, 1, 1>>, <<42893, 42893, 1, -42280>>,
      <<42896, 42898, 2, 1>>, <<42902, 42920, 2, 1>>,
      <<42922, 42922, 1, -42308>>, <<42923, 42923, 1, -42319>>,
      <<42924, 42924, 1, -42315>>, <<42925, 42925, 1, -42305>>,
      <<42926, 42926, 1, -42308>>, <<42928, 42928, 1, -42258>>,
      <<42929, 42929, 1, -42282>>, <<42930, 42930, 1, -42261>>,
      <<42931, 42931, 1, 928>>, <<42932, 42946, 2, 1>>,
      <<42948, 42948, 1, -48>>, <<42949, 42949, 1, -42307>>,
      <<42950, 42950, 1, -35384>>, <<42951, 42953, 2, 1>>,
      <<42960, 42960, 1, 1>>, <<42966, 42968, 2, 1>>, <<42997, 42997, 1, 1>>,
      <<65313, 65338, 1, 32>>, <<66560, 66599, 1, 40>>,
      <<66736, 66771, 1, 40>>, <<66928, 66938, 1, 39>>,
      <<66940, 66954, 1, 39>>, <<66956, 66962, 1, 39>>,
      <<66964, 66965, 1, 39>>, <<68736, 68786, 1, 64>>,
      <<71840, 71871, 1, 32>>, <<93760, 93791, 1, 32>>,
      <<125184, 125217, 1, 34>>
    }

\* The characters that the rule for a final sigma skips (Case_Ignorable),
\* and the characters that have case (Cased), in ranges <<first, last>>
CaseIgnorableRanges ==
    {
      <<39, 39>>, <<46, 46>>, <<58, 58>>, <<94, 94>>, <<96, 96>>,
      <<168, 168>>, <<173, 173>>, <<175, 175>>, <<180, 180>>, <<183, 184>>,
      <<688, 879>>, <<884, 885>>, <<890, 890>>, <<900, 901>>, <<903, 903>>,
      <<1155, 1161>>, <<1369, 1369>>, <<1375, 1375>>, <<1425, 1469>>,
      <<1471, 1471>>, <<1473, 1474>>, <<1476, 1477>>, <<1479, 1479>>,
      <<1524, 1524>>, <<1536, 1541>>, <<1552, 1562>>, <<1564, 1564>>,
      <<1600, 1600>>, <<1611, 1631>>, <<1648, 1648>>, <<1750, 1757>>,
      <<1759, 1768>>, <<1770, 1773>>, <<1807, 1807>>, <<1809, 1809>>,
      <<1840, 1866>>, <<1958, 1968>>, <<2027, 2037>>, <<2042, 2042>>,
      <<2045, 2045>>, <<2070, 2093>>, <<2137, 2139>>, <<2184, 2184>>,
      <<2192, 2193>>, <<2200, 2207>>, <<2249, 2306>>, <<2362, 2362>>,
      <<2364, 2364>>, <<2369, 2376>>, <<2381, 2381>>, <<2385, 2391>>,
      <<2402, 2403>>, <<2417, 2417>>, <<2433, 2433>>, <<2492, 2492>>,
      <<2497, 2500>>, <<2509, 2509>>, <<2530, 2531>>, <<2558, 2558>>,
      <<2561, 2562>>, <<2620, 2620>>, <<2625, 2626>>, <<2631, 2632>>,
      <<2635, 2637>>, <<2641, 2641>>, <<2672, 2673>>, <<2677, 2677>>,
      <<2689, 2690>>, <<2748, 2748>>, <<2753, 2757>>, <<2759, 2760>>,
      <<2765, 2765>>, <<2786, 2787>>, <<2810, 2815>>, <<2817, 2817>>,
      <<2876, 2876>>, <<2879, 2879>>, <<2881, 2884>>, <<2893, 2893>>,
      <<2901, 2902>>, <<2914, 2915>>, <<2946, 2946>>, <<3008, 3008>>,
      <<3021, 3021>>, <<3072, 3072>>, <<3076, 3076>>, <<3132, 3132>>,
      <<3134, 3136>>, <<3142, 3144>>, <<3146, 3149>>, <<3157, 3158>>,
      <<3170, 3171>>, <<3201, 3201>>, <<3260, 3260>>, <<3263, 3263>>,
      <<3270, 3270>>, <<3276, 3277>>, <<3298, 3299>>, <<3328, 3329>>,
      <<3387, 3388>>, <<3393, 3396>>, <<3405, 3405>>, <<3426, 3427>>,
      <<3457, 3457>>, <<3530, 3530>>, <<3538, 3540>>, <<3542, 3542>>,
      <<3633, 3633>>, <<3636, 3642>>, <<3654, 3662>>, <<3761, 3761>>,
      <<3764, 3772>>, <<3782, 3782>>, <<3784, 3789>>, <<3864, 3865>>,
      <<3893, 3893>>, <<3895, 3895>>, <<3897, 3897>>, <<3953, 3966>>,
      <<3968, 3972>>, <<3974, 3975>>, <<3981, 3991>>, <<3993, 4028>>,
      <<4038, 4038>>, <<4141, 4144>>, <<4146, 4151>>, <<4153, 4154>>,
      <<4157, 4158>>, <<4184, 4185>>, <<4190, 4192>>, <<4209, 4212>>,
      <<4226, 4226>>, <<4229, 4230>>, <<4237, 4237>>, <<4253, 4253>>,
      <<4348, 4348>>, <<4957, 4959>>, <<5906, 5908>>, <<5938, 5939>>,
      <<5970, 5971>>, <<6002, 6003>>, <<6068, 6069>>, <<6071, 6077>>,
      <<6086, 6086>>, <<6089, 6099>>, <<6103, 6103>>, <<6109, 6109>>,
      <<6155, 6159>>, <<6211, 6211>>, <<6277, 6278>>, <<6313, 6313>>,
      <<6432, 6434>>, <<6439, 6440>>, <<6450, 6450>>, <<6457, 6459>>,
      <<6679, 6680>>, <<6683, 6683>>, <<6742, 6742>>, <<6744, 6750>>,
      <<6752, 6752>>, <<6754, 6754>>, <<6757, 6764>>, <<6771, 6780>>,
      <<6783, 6783>>, <<6823, 6823>>, <<6832, 6862>>, <<6912, 6915>>,
      <<6964, 6964>>, <<6966, 6970>>, <<6972, 6972>>, <<6978, 6978>>,
      <<7019, 7027>>, <<7040, 7041>>, <<7074, 7077>>, <<7080, 7081>>,
      <<7083, 7085>>, <<7142, 7142>>, <<7144, 7145>>, <<7149, 7149>>,
      <<7151, 7153>>, <<7212, 7219>>, <<7222, 7223>>, <<7288, 7293>>,
      <<7376, 7378>>, <<7380, 7392>>, <<7394, 7400>>, <<7405, 7405>>,
      <<7412, 7412>>, <<7416, 7417>>, <<7468, 7530>>, <<7544, 7544>>,
      <<7579, 7679>>, <<8125, 8125>>, <<8127, 8129>>, <<8141, 8143>>,
      <<8157, 8159>>, <<8173, 8175>>, <<8189, 8190>>, <<8203, 8207>>,
      <<8216, 8217>>, <<8228, 8228>>, <<8231, 8231>>, <<8234, 8238>>,
      <<8288, 8292>>, <<8294, 8303>>, <<8305, 8305>>, <<8319, 8319>>,
      <<8336, 8348>>, <<8400, 8432>>, <<11388, 11389>>, <<11503, 11505>>,
      <<11631, 11631>>, <<11647, 11647>>, <<11744, 11775>>, <<11823, 11823>>,
      <<12293, 12293>>, <<12330, 12333>>, <<12337, 12341>>, <<12347, 12347>>,
      <<12441, 12446>>, <<12540, 12542>>, <<40981, 40981>>, <<42232, 42237>>,
      <<42508, 42508>>, <<42607, 42610>>, <<42612, 42621>>, <<42623, 42623>>,
      <<42652, 42655>>, <<42736, 42737>>, <<42752, 42785>>, <<42864, 42864>>,
      <<42888, 42890>>, <<42994, 42996>>, <<43000, 43001>>, <<43010, 43010>>,
      <<43014, 43014>>, <<43019, 43019>>, <<43045, 43046>>, <<43052, 43052>>,
      <<43204, 43205>>, <<43232, 43249>>, <<43263, 43263>>, <<43302, 43309>>,
      <<43335, 43345>>, <<43392, 43394>>, <<43443, 43443>>, <<43446, 43449>>,
      <<43452, 43453>>, <<43471, 43471>>, <<43493, 43494>>, <<43561, 43566>>,
      <<43569, 43570>>, <<43573, 43574>>, <<43587, 43587>>, <<43596, 43596>>,
      <<43632, 43632>>, <<43644, 43644>>, <<43696, 43696>>, <<43698, 43700>>,
      <<43703, 43704>>, <<43710, 43711>>, <<43713, 43713>>, <<43741, 43741>>,
      <<43756, 43757>>, <<43763, 43764>>, <<43766, 43766>>, <<43867, 43871>>,
      <<43881, 43883>>, <<44005, 44005>>, <<44008, 44008>>, <<44013, 44013>>,
      <<64286, 64286>>, <<64434, 64450>>, <<65024, 65039>>, <<65043, 65043>>,
      <<65056, 65071>>, <<65106, 65106>>, <<65109, 65109>>, <<65279, 65279>>,
      <<65287, 65287>>, <<65294, 65294>>, <<65306, 65306>>, <<65342, 65342>>,
      <<65344, 65344>>, <<65392, 65392>>, <<65438, 65439>>, <<65507, 65507>>,
      <<65529, 65531>>, <<66045, 66045>>, <<66272, 66272>>, <<66422, 66426>>,
      <<67456, 67461>>, <<67463, 67504>>, <<67506, 67514>>, <<68097, 68099>>,
      <<68101, 68102>>, <<68108, 68111>>, <<68152, 68154>>, <<68159, 68159>>,
      <<68325, 68326>>, <<68900, 68903>>, <<69291, 69292>>, <<69446, 69456>>,
      <<69506, 69509>>, <<69633, 69633>>, <<69688, 69702>>, <<69744, 69744>>,
      <<69747, 69748>>, <<69759, 69761>>, <<69811, 69814>>, <<69817, 69818>>,
      <<69821, 69821>>, <<69826, 69826>>, <<69837, 69837>>, <<69888, 69890>>,
      <<69927, 69931>>, <<69933, 69940>>, <<70003, 70003>>, <<70016, 70017>>,
      <<70070, 70078>>, <<70089, 70092>>, <<70095, 70095>>, <<70191, 70193>>,
      <<70196, 70196>>, <<70198, 70199>>, <<70206, 70206>>, <<70367, 70367>>,
      <<70371, 70378>>, <<70400, 70401>>, <<70459, 70460>>, <<70464, 70464>>,
      <<70502, 70508>>, <<70512, 70516>>, <<70712, 70719>>, <<70722, 70724>>,
      <<70726, 70726>>, <<70750, 70750>>, <<70835, 70840>>, <<70842, 70842>>,
      <<70847, 70848>>, <<70850, 70851>>, <<71090, 71093>>, <<71100, 71101>>,
      <<71103, 71104>>, <<71132, 71133>>, <<71219, 71226>>, <<71229, 71229>>,
      <<71231, 71232>>, <<71339, 71339>>, <<71341, 71341>>, <<71344, 71349>>,
      <<71351, 71351>>, <<71453, 71455>>, <<71458, 71461>>, <<71463, 71467>>,
      <<71727, 71735>>, <<71737, 71738>>, <<71995, 71996>>, <<71998, 71998>>,
      <<72003, 72003>>, <<72148, 72151>>, <<72154, 72155>>, <<72160, 72160>>,
      <<72193, 72202>>, <<72243, 72248>>, <<72251, 72254>>, <<72263, 72263>>,
      <<72273, 72278>>, <<72281, 72283>>, <<72330, 72342>>, <<72344, 72345>>,
      <<72752, 72758>>, <<72760, 72765>>, <<72767, 72767>>, <<72850, 72871>>,
      <<72874, 72880>>, <<72882, 72883>>, <<72885, 72886>>, <<73009, 73014>>,
      <<73018, 73018>>, <<73020, 73021>>, <<73023, 73029>>, <<73031, 73031>>,
      <<73104, 73105>>, <<73109, 73109>>, <<73111, 73111>>, <<73459, 73460>>,
      <<78896, 78904>>, <<92912, 92916>>, <<92976, 92982>>, <<92992, 92995>>,
      <<94031, 94031>>, <<94095, 94111>>, <<94176, 94177>>, <<94179, 94180>>,
      <<110576, 110579>>, <<110581, 110587>>, <<110589, 110590>>,
      <<113821, 113822>>, <<113824, 113827>>, <<118528, 118573>>,
      <<118576, 118598>>, <<119143, 119145>>, <<119155, 119170>>,
      <<119173, 119179>>, <<119210, 119213>>, <<119362, 119364>>,
      <<121344, 121398>>, <<121403, 121452>>, <<121461, 121461>>,
      <<121476, 121476>>, <<121499, 121503>>, <<121505, 121519>>,
      <<122880, 122886>>, <<122888, 122904>>, <<122907, 122913>>,
      <<122915, 122916>>, <<122918, 122922>>, <<123184, 123197>>,
      <<123566, 123566>>, <<123628, 123631>>, <<125136, 125142>>,
      <<125252, 125259>>, <<127995, 127999>>, <<917505, 917505>>,
      <<917536, 917631>>, <<917760, 917999>>
    }

CasedRanges ==
    {
      <<65, 90>>, <<97, 122>>, <<170, 170>>, <<181, 181>>, <<186, 186>>,
      <<192, 214>>, <<216, 246>>, <<248, 442>>, <<444, 447>>, <<452, 659>>,
      <<661, 696>>, <<704, 705>>, <<736, 740>>, <<837, 837>>, <<880, 883>>,
      <<886, 887>>, <<890, 893>>, <<895, 895>>, <<902, 902>>, <<904, 906>>,
      <<908, 908>>, <<910, 929>>, <<931, 1013>>, <<1015, 1153>>,
      <<1162, 1327>>, <<1329, 1366>>, <<1376, 1416>>, <<4256, 4293>>,
      <<4295, 4295>>, <<4301, 4301>>, <<4304, 4346>>, <<4349, 4351>>,
      <<5024, 5109>>, <<5112, 5117>>, <<7296, 7304>>, <<7312, 7354>>,
      <<7357, 7359>>, <<7424, 7615>>, <<7680, 7957>>, <<7960, 7965>>,
      <<7968, 8005>>, <<8008, 8013>>, <<8016, 8023>>, <<8025, 8025>>,
      <<8027, 8027>>, <<8029, 8029>>, <<8031, 8061>>, <<8064, 8116>>,
      <<8118, 8124>>, <<8126, 8126>>, <<8130, 8132>>, <<8134, 8140>>,
      <<8144, 8147>>, <<8150, 8155>>, <<8160, 8172>>, <<8178, 8180>>,
      <<8182, 8188>>, <<8305, 8305>>, <<8319, 8319>>, <<8336, 8348>>,
      <<8450, 8450>>, <<8455, 8455>>, <<8458, 8467>>, <<8469, 8469>>,
      <<8473, 8477>>, <<8484, 8484>>, <<8486, 8486>>, <<8488, 8488>>,
      <<8490, 8493>>, <<8495, 8500>>, <<8505, 8505>>, <<8508, 8511>>,
      <<8517, 8521>>, <<8526, 8526>>, <<8544, 8575>>, <<8579, 8580>>,
      <<9398, 9449>>, <<11264, 11492>>, <<11499, 11502>>, <<11506, 11507>>,
      <<11520, 11557>>, <<11559, 11559>>, <<11565, 11565>>, <<42560, 42605>>,
      <<42624, 42653>>, <<42786, 42887>>, <<42891, 42894>>, <<42896, 42954>>,
      <<42960, 42961>>, <<42963, 42963>>, <<42965, 42969>>, <<42997, 42998>>,
      <<43000, 43002>>, <<43824, 43866>>, <<43868, 43880>>, <<43888, 43967>>,
      <<64256, 64262>>, <<64275, 64279>>, <<65313, 65338>>, <<65345, 65370>>,
      <<66560, 66639>>, <<66736, 66771>>, <<66776, 66811>>, <<66928, 66938>>,
      <<66940, 66954>>, <<66956, 66962>>, <<66964, 66965>>, <<66967, 66977>>,
      <<66979, 66993>>, <<66995, 67001>>, <<67003, 67004>>, <<67456, 67456>>,
      <<67459, 67461>>, <<67463, 67504>>, <<67506, 67514>>, <<68736, 68786>>,
      <<68800, 68850>>, <<71840, 71903>>, <<93760, 93823>>,
      <<119808, 119892>>, <<119894, 119964>>, <<119966, 119967>>,
      <<119970, 119970>>, <<119973, 119974>>, <<119977, 119980>>,
      <<119982, 119993>>, <<119995, 119995>>, <<119997, 120003>>,
      <<120005, 120069>>, <<120071, 120074>>, <<120077, 120084>>,
      <<120086, 120092>>, <<120094, 120121>>, <<120123, 120126>>,
      <<120128, 120132>>, <<120134, 120134>>, <<120138, 120144>>,
      <<120146, 120485>>, <<120488, 120512>>, <<120514, 120538>>,
      <<120540, 120570>>, <<120572, 120596>>, <<120598, 120628>>,
      <<120630, 120654>>, <<120656, 120686>>, <<120688, 120712>>,
      <<120714, 120744>>, <<120746, 120770>>, <<120772, 120779>>,
      <<122624, 122633>>, <<122635, 122654>>, <<125184, 125251>>,
      <<127280, 127305>>, <<127312, 127337>>, <<127344, 127369>>
    }

IsCaseIgnorable(c) == InRanges(c, CaseIgnorableRanges)

IsCased(c) == InRanges(c, CasedRanges)

\* c.lower() for a one-character str: one character, or "i" and the
\* combining dot above for U+0130
LowerCh(c) ==
    IF c < 128 THEN (IF 65 <= c /\ c <= 90 THEN <<c + 32>> ELSE <<c>>)
    ELSE IF c = 304 THEN <<105, 775>>
    ELSE LET runs == {r \in LowerRuns :
                         r[1] <= c /\ c <= r[2] /\ (c - r[1]) % r[3] = 0}
         IN  IF runs = {} THEN <<c>> ELSE <<c + (CHOOSE r \in runs : TRUE)[4]>>

\* The capital sigma at s[i] is final: the nearest character before it that
\* is not skipped has case, and the nearest one after it, if any, has not
FinalSigma(s, i) ==
    LET before == {j \in 1..(i - 1) : ~IsCaseIgnorable(s[j])}
        after == {j \in (i + 1)..Len(s) : ~IsCaseIgnorable(s[j])}
        jb == CHOOSE j \in before : \A k \in before : k <= j
        ja == CHOOSE j \in after : \A k \in after : j <= k
    IN  /\ before # {}
        /\ IsCased(s[jb])
        /\ after = {} \/ ~IsCased(s[ja])

RECURSIVE LowerFrom(_, _)
LowerFrom(s, i) ==
    IF i > Len(s) THEN <<>>
    ELSE (IF s[i] = 931 THEN (IF FinalSigma(s, i) THEN <<962>> ELSE <<963>>)
          ELSE LowerCh(s[i]))
         \o LowerFrom(s, i + 1)

\* s.lower()
Lower(s) == LowerFrom(s, 1)

\* a < b on str: lexicographic by code point
RECURSIVE StrLess(_, _)
StrLess(a, b) ==
    IF Len(b) = 0 THEN FALSE
    ELSE IF Len(a) = 0 THEN TRUE
    ELSE IF Head(a) = Head(b) THEN StrLess(Tail(a), Tail(b))
    ELSE Head(a) < Head(b)

HexDigits == Str("0123456789abcdef")

\* c is one of 0-9, a-f, A-F
IsHexCh(c) ==
    \/ 48 <= c /\ c <= 57
    \/ 65 <= c /\ c <= 70
    \/ 97 <= c /\ c <= 102

HexChVal(c) ==
    IF c <= 57 THEN c - 48 ELSE IF c <= 70 THEN c - 55 ELSE c - 87

\* The characters with the value zero of each run of ten decimal digits
\* (general category Nd)
DecimalZeros ==
    {
      48, 1632, 1776, 1984, 2406, 2534, 2662, 2790, 2918, 3046, 3174, 3302,
      3430, 3558, 3664, 3792, 3872, 4160, 4240, 6112, 6160, 6470, 6608, 6784,
      6800, 6992, 7088, 7232, 7248, 42528, 43216, 43264, 43472, 43504, 43600,
      44016, 65296, 66720, 68912, 69734, 69872, 69942, 70096, 70384, 70736,
      70864, 71248, 71360, 71472, 71904, 72016, 72784, 73040, 73120, 92768,
      92864, 93008, 120782, 120792, 120802, 120812, 120822, 123200, 123632,
      125264, 130032
    }

\* The value of a decimal digit of any script; -1 for every other character
DecimalOf(c) ==
    LET zs == {z \in DecimalZeros : z <= c /\ c <= z + 9}
    IN  IF zs = {} THEN 0 - 1 ELSE c - (CHOOSE z \in zs : TRUE)

-----------------------------------------------------------------------------
(* decoders.py *)

\* What int() reads in place of the text: a character above U+007F becomes a
\* space when it is whitespace and the ASCII digit of its value when it is a
\* decimal digit; any other one cannot be read ("?")
IntAscii(c) ==
    IF c <= 127 THEN c
    ELSE IF IsSpace(c) THEN 32
    ELSE IF DecimalOf(c) >= 0 THEN 48 + DecimalOf(c)
    ELSE Cp("?")

\* The text int() reads in place of s
RECURSIVE IntText(_)
IntText(s) ==
    IF Len(s) = 0 THEN <<>> ELSE <<IntAscii(Head(s))>> \o IntText(Tail(s))

\* The whitespace int() trims from the text it reads: U+0009 to U+000D and
\* the space
IntSpace == {9, 10, 11, 12, 13, 32}

\* int(part, 16): [ok, v]; ok = FALSE is ValueError
RECURSIVE HexDigitsValue(_, _)
HexDigitsValue(s, acc) ==
    IF Len(s) = 0 THEN acc
    ELSE IF Head(s) = Cp("_") THEN HexDigitsValue(Tail(s), acc)
    ELSE HexDigitsValue(Tail(s), 16 * acc + HexChVal(Head(s)))

\* The digits of the trimmed text t: after the sign, the prefix 0x or 0X and
\* one underscore after the prefix
IntDigits16(t) ==
    LET u == IF Len(t) > 0 /\ Head(t) \in {Cp("+"), Cp("-")} THEN Tail(t) ELSE t
        pre == Len(u) >= 2 /\ SubSeq(u, 1, 2) \in {Str("0x"), Str("0X")}
        w0 == IF pre THEN From(u, 2) ELSE u
    IN  IF pre /\ Len(w0) > 0 /\ Head(w0) = Cp("_") THEN Tail(w0) ELSE w0

PyInt16(part) ==
    Only({
        LET neg == Len(t) > 0 /\ Head(t) = Cp("-")
        IN  Only({
                LET good == /\ Len(w) > 0
                            /\ \A i \in 1..Len(w) : IsHexCh(w[i]) \/ w[i] = Cp("_")
                            /\ Head(w) # Cp("_")
                            /\ w[Len(w)] # Cp("_")
                            /\ ~Contains(w, Str("__"))
                IN  IF good
                    THEN [ok |-> TRUE, v |-> IF neg THEN 0 - HexDigitsValue(w, 0)
                                                    ELSE HexDigitsValue(w, 0)]
                    ELSE [ok |-> FALSE, v |-> 0]
                : w \in {IntDigits16(t)}})
        : t \in {StripSet(IntText(part), IntSpace)}})

\* [p.strip() for p in re.split(r"[\s,]+", raw) if p.strip()]
RECURSIVE HexParts(_, _)
HexParts(s, cur) ==
    IF Len(s) = 0 THEN (IF cur = <<>> THEN <<>> ELSE <<cur>>)
    ELSE IF IsSpace(Head(s)) \/ Head(s) = Cp(",")
         THEN (IF cur = <<>> THEN <<>> ELSE <<cur>>) \o HexParts(Tail(s), <<>>)
         ELSE HexParts(Tail(s), Append(cur, Head(s)))

\* The for loop of decode_hex_string: [ok, bytes]; ok = FALSE is `return ""`
RECURSIVE HexBytes(_, _)
HexBytes(parts, bytes_list) ==
    IF Len(parts) = 0 THEN [ok |-> TRUE, bytes |-> bytes_list]
    ELSE LET part == Head(parts)
         IN  IF Len(part) > 2 THEN HexBytes(Tail(parts), bytes_list)
             ELSE Only({
                 IF ~b.ok THEN [ok |-> FALSE, bytes |-> <<>>]
                 ELSE IF 0 <= b.v /\ b.v <= 255
                      THEN HexBytes(Tail(parts), Append(bytes_list, b.v))
                      ELSE [ok |-> FALSE, bytes |-> <<>>]
                 : b \in {PyInt16(part)}})

ReplacementChar == 65533

IsHighSurrogate(u) == 55296 <= u /\ u <= 56319
IsLowSurrogate(u) == 56320 <= u /\ u <= 57343

\* bytes.decode("utf-16-le", errors="replace")
RECURSIVE Utf16LeDecode(_)
Utf16LeDecode(data) ==
    IF Len(data) = 0 THEN <<>>
    ELSE IF Len(data) = 1 THEN <<ReplacementChar>>
    ELSE LET u == data[1] + 256 * data[2]
             rest == SubSeq(data, 3, Len(data))
         IN  IF IsHighSurrogate(u)
             THEN IF Len(rest) < 2 THEN <<ReplacementChar>>
                  ELSE LET lo == rest[1] + 256 * rest[2]
                       IN  IF IsLowSurrogate(lo)
                           THEN <<65536 + (u - 55296) * 1024 + (lo - 56320)>>
                                \o Utf16LeDecode(SubSeq(rest, 3, Len(rest)))
                           ELSE <<ReplacementChar>> \o Utf16LeDecode(rest)
             ELSE IF IsLowSurrogate(u) THEN <<ReplacementChar>> \o Utf16LeDecode(rest)
             ELSE <<u>> \o Utf16LeDecode(rest)

\* A plausible slip: one terminator is removed, not every trailing null.
RStripOneNul(s) ==
    IF Len(s) > 0 /\ s[Len(s)] = 0 THEN SubSeq(s, 1, Len(s) - 1) ELSE s

\* s.rstrip("\x00")
RECURSIVE RStripNul(_)
RStripNul(s) ==
    IF Len(s) > 0 /\ s[Len(s)] = 0 THEN RStripNul(SubSeq(s, 1, Len(s) - 1)) ELSE s

decode_hex_string(raw) ==
    IF Len(raw) = 0 \/ Len(Strip(raw)) = 0 THEN <<>>
    ELSE Only({
             Only({
                 IF ~r.ok THEN <<>>
                 ELSE IF Len(r.bytes) = 0 THEN <<>>
                 ELSE RStripNul(Utf16LeDecode(r.bytes))
                 : r \in {HexBytes(parts, <<>>)}})
             : parts \in {HexParts(Strip(raw), <<>>)}})

\* re.match(r"^([0-9a-fA-F]{1,8})$", raw); "$" also matches before a final "\n"
DwordMatch(raw) ==
    LET body == IF Len(raw) > 0 /\ raw[Len(raw)] = 10
                THEN SubSeq(raw, 1, Len(raw) - 1) ELSE raw
    IN  IF /\ 1 <= Len(body) /\ Len(body) <= 8
           /\ \A i \in 1..Len(body) : IsHexCh(body[i])
        THEN [ok |-> TRUE, g1 |-> body]
        ELSE [ok |-> FALSE, g1 |-> <<>>]

\* A plausible slip: the input is matched without being trimmed first.
decode_dword_no_strip(raw) ==
    Only({IF m.ok THEN PyInt16(m.g1).v ELSE 0 : m \in {DwordMatch(raw)}})

decode_dword(raw) ==
    IF Len(raw) = 0 \/ Len(Strip(raw)) = 0 THEN 0
    ELSE Only({
             IF ~m.ok THEN 0
             ELSE Only({IF v.ok THEN v.v ELSE 0 : v \in {PyInt16(m.g1)}})
             : m \in {DwordMatch(Strip(raw))}})

(* Bounded inputs *)

RECURSIVE Repeat(_, _)
Repeat(c, n) == IF n = 0 THEN <<>> ELSE <<c>> \o Repeat(c, n - 1)

\* The strs of at most n characters of A
RECURSIVE StringsUpTo(_, _)
StringsUpTo(A, n) ==
    IF n = 0 THEN {<<>>}
    ELSE LET shorter == StringsUpTo(A, n - 1)
         IN  shorter \cup {Append(x, c) : x \in shorter, c \in A}

SeqsUpTo(S, n) == UNION {[1..k -> S] : k \in 0..n}

\* Tokens of a hex(1) payload: bytes, a one-digit byte, uppercase, a non-hex
\* token, a three-digit token, signed tokens, the Bengali digit one (U+09E7)
MaxTokens == 3
HexTokenSet ==
    {Str("61"), Str("00"), Str("0A"), Str("7"), Str("zz"), Str("123"), Str("+f"),
     Str("-1"), <<2535>>}
HexSeps == {Str(","), Str(", ")}
HexRawInputs ==
    {pad \o Join(ts, sep) \o pad :
        ts \in SeqsUpTo(HexTokenSet, MaxTokens), sep \in HexSeps, pad \in {<<>>, Str(" ")}}
    \cup \* separated by no-break spaces (U+00A0), between two next-line
         \* characters (U+0085); separated by ogham space marks (U+1680);
         \* between two file separators (U+001C)
         {<<133>> \o Join(ts, <<160>>) \o <<133>> : ts \in SeqsUpTo(HexTokenSet, MaxTokens)}
    \cup {Join(ts, <<5760>>) : ts \in SeqsUpTo(HexTokenSet, MaxTokens)}
    \cup {<<28>> \o Join(ts, Str(",")) \o <<28>> : ts \in SeqsUpTo(HexTokenSet, 2)}

\* Texts whose export is decoded: U+0000, "a", U+0A00, U+263A
MaxTextLen == 2
TextUnits == {0, 97, 2560, 9786}
Texts == SeqsUpTo(TextUnits, MaxTextLen)

ByteHex(b) == <<HexDigits[(b \div 16) + 1], HexDigits[(b % 16) + 1]>>

\* The hex(1) payload of a text: its UTF-16LE bytes, comma separated
RECURSIVE EncodeHex(_)
EncodeHex(text) ==
    IF Len(text) = 0 THEN <<>>
    ELSE ByteHex(text[1] % 256) \o Str(",") \o ByteHex(text[1] \div 256)
         \o (IF Len(text) = 1 THEN <<>> ELSE Str(",") \o EncodeHex(Tail(text)))

\* dword payloads: [pre] [pad digits] [body] [post]
MaxPad == 7
MaxBody == 2
DwordBodies == StringsUpTo({Cp("1"), Cp("a"), Cp("F"), Cp("g")}, MaxBody)
DwordInputs ==
    {pre \o Repeat(pc, n) \o body \o post :
        pre \in {<<>>, Str(" "), Str("x")}, pc \in {Cp("0"), Cp("7")}, n \in 0..MaxPad,
        body \in DwordBodies,
        post \in {<<>>, Str(" "), Str("\n"), Str("h")}}
    \cup \* between characters that only Unicode counts as whitespace: U+001C
         \* and U+00A0, U+1680 and U+3000
         {pre \o Repeat(pc, n) \o body \o post :
             pre \in {<<28>>, <<5760>>}, pc \in {Cp("0"), Cp("7")}, n \in 0..MaxPad,
             body \in DwordBodies, post \in {<<160>>, <<12288>>}}
    \cup \* digits of other scripts: Bengali one, fullwidth seven
         {Str("1") \o <<2535>>, <<65303>>, Str("a") \o <<65303>>}

DecoderInputs ==
    {[src |-> "hex", raw |-> r, text |-> <<>>] : r \in HexRawInputs}
    \cup {[src |-> "text", raw |-> EncodeHex(t \o <<0>>), text |-> t] : t \in Texts}
    \cup {[src |-> "dword", raw |-> r, text |-> <<>>] : r \in DwordInputs}

-----------------------------------------------------------------------------
(* Idle values of the variables a specification does not use *)

DIdle == d_in = [src |-> "none", raw |-> <<>>, text |-> <<>>] /\ d_fn = "none" /\ d_ret = <<>>
PIdle == /\ p_lines = <<>> /\ p_i = 0 /\ p_state = "idle"
         /\ have_key = FALSE /\ current_key = <<>> /\ result = <<>>
FIdle == /\ keys = <<>> /\ skip_default_settings = TRUE /\ f_i = 0
         /\ f_state = "idle" /\ f_result = <<>> /\ f_kept = {}
CIdle == /\ sessions = <<>> /\ c_state = "idle" /\ c_i = 0
         /\ blocks = <<>> /\ config = <<>>
BIdle == /\ b_name = <<>> /\ b_data = <<>> /\ b_state = "idle"
         /\ b_proxy = [ok |-> TRUE, some |-> FALSE, line |-> <<>>] /\ b_fwd = <<>>
         /\ b_lines = <<>> /\ b_text = <<>>

-----------------------------------------------------------------------------
(* The decoders applied to drawn payloads *)

DecodeInit ==
    /\ d_in \in DecoderInputs /\ d_fn = "none" /\ d_ret = <<>>
    /\ PIdle /\ FIdle /\ CIdle /\ BIdle

DecodeHexString ==
    /\ d_fn = "none"
    /\ d_fn' = "hex"
    /\ d_ret' = decode_hex_string(d_in.raw)
    /\ UNCHANGED <<d_in, pvars, fvars, cvars, bvars>>

DecodeDword ==
    /\ d_fn = "none"
    /\ d_fn' = "dword"
    /\ d_ret' = decode_dword(d_in.raw)
    /\ UNCHANGED <<d_in, pvars, fvars, cvars, bvars>>

DecodeNext == DecodeHexString \/ DecodeDword

SpecDecode == DecodeInit /\ [][DecodeNext]_vars

-----------------------------------------------------------------------------
(* Claims about the decoders *)

\* A byte token as the format writes it: one or two hexadecimal digits
ValidHexByte(t) ==
    Len(t) \in {1, 2} /\ \A i \in 1..Len(t) : IsHexCh(t[i])

\* C3: decode_hex_string is fail-closed: when any token of the payload is not
\* a valid hexadecimal byte, or is longer than two digits, the result is the
\* empty string.
C3_FailClosed ==
    d_fn = "hex" =>
        LET parts == HexParts(d_in.raw, <<>>)
        IN  (\E i \in 1..Len(parts) : ~ValidHexByte(parts[i])) => d_ret = <<>>

\* C4 as stated: decoding the export of s followed by one null returns s
\* unchanged, for every s, also one that ends in null characters.
C4_StripsExactlyOneNull ==
    (d_fn = "hex" /\ d_in.src = "text") => d_ret = d_in.text

\* C4, amended: decoding the export of s followed by one null returns s with
\* every trailing null character removed and nothing else changed (internal
\* nulls stay); so it returns s itself exactly when s does not end in a null.
C4_StripsEveryTrailingNull ==
    (d_fn = "hex" /\ d_in.src = "text") =>
        LET t == d_in.text
            r == d_ret
        IN  /\ Len(r) <= Len(t)
            /\ SubSeq(t, 1, Len(r)) = r
            /\ \A i \in (Len(r) + 1)..Len(t) : t[i] = 0
            /\ Len(r) > 0 => r[Len(r)] # 0

\* The text "a" U+0000 was exported and decoded: the null of the text is gone
C4_Witness ==
    /\ d_fn = "hex" /\ d_in.src = "text"
    /\ d_in.text = <<97, 0>> /\ d_in.raw = Str("61,00,00,00,00,00")
    /\ d_ret = <<97>>

RECURSIVE Pow16(_)
Pow16(n) == IF n = 0 THEN 1 ELSE 16 * Pow16(n - 1)

IsHex1to8(s) ==
    /\ 1 <= Len(s) /\ Len(s) <= 8
    /\ \A i \in 1..Len(s) : IsHexCh(s[i])

\* v is the unsigned base-16 value of the digit string s
HasHexValue(v, s) ==
    /\ v >= 0
    /\ v \div Pow16(Len(s) - 1) = HexChVal(s[1])
    /\ \A i \in 1..Len(s) : (v \div Pow16(Len(s) - i)) % 16 = HexChVal(s[i])

\* C5 as stated: decode_dword returns the base-16 value when its input is
\* exactly 1 to 8 hexadecimal digits with no surrounding text, and 0 for every
\* other input.
C5_ExactDigitsOnly ==
    d_fn = "dword" =>
        IF IsHex1to8(d_in.raw) THEN HasHexValue(d_ret, d_in.raw) ELSE d_ret = 0

\* C5, amended: decode_dword returns the base-16 value when its input, with
\* surrounding whitespace trimmed, is exactly 1 to 8 hexadecimal digits, and 0
\* for every other input.
C5_TrimmedDigits ==
    d_fn = "dword" =>
        IF IsHex1to8(Strip(d_in.raw)) THEN HasHexValue(d_ret, Strip(d_in.raw))
        ELSE d_ret = 0

\* A payload with whitespace around two digits was decoded to their value
C5_Witness ==
    d_fn = "dword" /\ d_in.raw = Str(" 7a ") /\ d_ret = 122

-----------------------------------------------------------------------------
(* Dicts *)

\* {}
EmptyDict == [x \in {} |-> 0]

\* d[k] = v on a dict whose order does not matter
MapPut(d, k, v) == [x \in (DOMAIN d) \cup {k} |-> IF x = k THEN v ELSE d[x]]

\* k in d, on an insertion-ordered dict
DictHas(d, k) == \E i \in 1..Len(d) : d[i].k = k

\* d[k]
DictGet(d, k) == d[CHOOSE i \in 1..Len(d) : d[i].k = k].v

\* A plausible slip: a present key keeps the value it has.
DictSet_keep_first(d, k, v) ==
    IF DictHas(d, k) THEN d ELSE Append(d, [k |-> k, v |-> v])

\* d[k] = v: a present key keeps its place, a new key goes last
DictSet(d, k, v) ==
    IF DictHas(d, k)
    THEN [i \in 1..Len(d) |-> IF d[i].k = k THEN [k |-> k, v |-> v] ELSE d[i]]
    ELSE Append(d, [k |-> k, v |-> v])

IntVal(n) == [t |-> "int", v |-> n]
StrVal(x) == [t |-> "str", v |-> x]

\* No value: the field is not in the dict
Missing == [t |-> "none", v |-> 0]

\* The dict of the fields that are not Missing; fields is a set of
\* <<name, value>> with the names as literals
MkData(fields) ==
    [x \in {Str(f[1]) : f \in {g \in fields : g[2].t # "none"}}
        |-> (CHOOSE f \in fields : Str(f[1]) = x)[2]]

-----------------------------------------------------------------------------
(* reg_parser.py *)

\* The text a pattern ending in "$" has to match: "$" is at the end of the
\* string and also just before a line break that ends it
BeforeFinalNewline(line) ==
    IF Len(line) > 0 /\ line[Len(line)] = 10
    THEN SubSeq(line, 1, Len(line) - 1) ELSE line

\* KEY_LINE.match(line): [ok, g1]
KEY_LINE(line) ==
    LET text == BeforeFinalNewline(line)
    IN  IF Len(text) >= 2 /\ Head(text) = Cp("[") /\ text[Len(text)] = Cp("]")
           /\ ~Contains(text, <<10>>)
        THEN [ok |-> TRUE, g1 |-> SubSeq(text, 2, Len(text) - 1)]
        ELSE [ok |-> FALSE, g1 |-> <<>>]

\* VALUE_LINE.match(line): [ok, g1, g2, g3]
VALUE_LINE(line) ==
    LET text == BeforeFinalNewline(line)
        q == Find(From(text, 1), Str("\""))  \* the closing quote, counted after the opening one
        name == SubSeq(text, 2, q)
        rest == From(text, q + 1)
        tag == IF StartsWith(rest, Str("=dword:")) THEN Str("dword")
               ELSE IF StartsWith(rest, Str("=hex(1):")) THEN Str("hex(1)") ELSE <<>>
        raw == From(rest, Len(tag) + 2)
        no == [ok |-> FALSE, g1 |-> <<>>, g2 |-> <<>>, g3 |-> <<>>]
    IN  IF Len(text) = 0 \/ Head(text) # Cp("\"") THEN no
        ELSE IF q < 2 THEN no
        ELSE IF tag = <<>> \/ Len(raw) = 0 \/ Contains(raw, <<10>>) THEN no
        ELSE [ok |-> TRUE, g1 |-> name, g2 |-> tag, g3 |-> raw]

\* Lines of a file: a header, a blank line, key lines (one padded with spaces,
\* one padded with ogham space marks U+1680, three with an empty path, one of
\* them a no-break space U+00A0), value lines of both tags, a bad dword, an
\* unknown tag, an empty name
MaxLines == 3
ParseLineSet ==
    { Str("Windows Registry Editor Version 5.00"), <<>>,
      Str("[K]"), Str("[ K ]"), <<91, 5760, 75, 5760, 93>>, Str("[J]"),
      Str("[]"), Str("[  ]"), <<91, 160, 93>>,
      Str("\"A\"=dword:00000016"), Str("\"A\"=dword:zz"), Str("\"H\"=hex(1):68,00,00,00"),
      Str("\"B\"=hex(2):68,00"), Str("\"\"=dword:1") }

ParseInit ==
    /\ \E content \in SeqsUpTo(ParseLineSet, MaxLines) :
           p_lines = [i \in 1..Len(content) |-> Append(content[i], 10)]
    /\ p_i = 0 /\ p_state = "scan"
    /\ have_key = FALSE /\ current_key = <<>> /\ result = <<>>
    /\ DIdle /\ FIdle /\ CIdle /\ BIdle

\* A plausible slip: a key line always starts its entry afresh.
ScanLine_redeclare_resets ==
    /\ p_state = "scan" /\ p_i < Len(p_lines)
    /\ LET line == RStripSet(p_lines[p_i + 1], {13, 10})
           key_m == KEY_LINE(line)
           value_m == VALUE_LINE(line)
           key == Strip(key_m.g1)
           decoded == IF value_m.g2 = Str("dword") THEN IntVal(decode_dword(value_m.g3))
                      ELSE StrVal(decode_hex_string(value_m.g3))
       IN  IF key_m.ok
           THEN /\ current_key' = key
                /\ have_key' = TRUE
                /\ result' = IF key = <<>> THEN result
                             ELSE IF DictHas(result, key)
                             THEN DictSet(result, key, EmptyDict)
                             ELSE Append(result, [k |-> key, v |-> EmptyDict])
                /\ p_state' = "scan"
           ELSE IF ~have_key \/ ~value_m.ok
           THEN UNCHANGED <<current_key, have_key, result, p_state>>
           ELSE IF ~DictHas(result, current_key)
           THEN \* result[current_key] raises KeyError
                /\ p_state' = "raised"
                /\ UNCHANGED <<current_key, have_key, result>>
           ELSE /\ result' = DictSet(result, current_key,
                                     MapPut(DictGet(result, current_key), value_m.g1, decoded))
                /\ UNCHANGED <<current_key, have_key, p_state>>
    /\ p_i' = p_i + 1
    /\ UNCHANGED <<p_lines, dvars, fvars, cvars, bvars>>

\* One turn of `for line in f`
ScanLine ==
    /\ p_state = "scan" /\ p_i < Len(p_lines)
    /\ LET line == RStripSet(p_lines[p_i + 1], {13, 10})
           key_m == KEY_LINE(line)
           value_m == VALUE_LINE(line)
           key == Strip(key_m.g1)
           decoded == IF value_m.g2 = Str("dword") THEN IntVal(decode_dword(value_m.g3))
                      ELSE StrVal(decode_hex_string(value_m.g3))
       IN  IF key_m.ok
           THEN /\ current_key' = key
                /\ have_key' = TRUE
                /\ result' = IF key # <<>> /\ ~DictHas(result, key)
                             THEN Append(result, [k |-> key, v |-> EmptyDict])
                             ELSE result
                /\ p_state' = "scan"
           ELSE IF ~have_key \/ ~value_m.ok
           THEN UNCHANGED <<current_key, have_key, result, p_state>>
           ELSE IF ~DictHas(result, current_key)
           THEN \* result[current_key] raises KeyError
                /\ p_state' = "raised"
                /\ UNCHANGED <<current_key, have_key, result>>
           ELSE /\ result' = DictSet(result, current_key,
                                     MapPut(DictGet(result, current_key), value_m.g1, decoded))
                /\ UNCHANGED <<current_key, have_key, p_state>>
    /\ p_i' = p_i + 1
    /\ UNCHANGED <<p_lines, dvars, fvars, cvars, bvars>>

\* `return result` after the last line
ParseReturn ==
    /\ p_state = "scan" /\ p_i = Len(p_lines)
    /\ p_state' = "returned"
    /\ UNCHANGED <<p_lines, p_i, have_key, current_key, result, dvars, fvars, cvars, bvars>>

ParseNext == ScanLine \/ ParseReturn

SpecParse == ParseInit /\ [][ParseNext]_vars

\* C2: whatever the lines of the file, parse_reg_file never raises; it ends by
\* returning the tree.
C2_NeverRaises == p_state # "raised"

-----------------------------------------------------------------------------
(* session_filter.py *)

SESSIONS_PREFIX == Str("\\Software\\SimonTatham\\PuTTY\\Sessions")
SESSIONS_PREFIX_NORMALIZED == Replace(Lower(SESSIONS_PREFIX), Str("/"), Str("\\"))

_normalize_key(key) == Lower(StripSet(Replace(key, Str("/"), Str("\\")), {Cp("\\")}))

\* bytes.decode("utf-8", errors="replace"): the code points of a byte
\* sequence; a byte that starts no sequence, and a sequence cut short (by the
\* end or by a byte that does not continue it), become one U+FFFD
IsCont(b) == 128 <= b /\ b <= 191

\* The values the second byte of a sequence may take after the first byte b1
SecondByteOk(b1, b2) ==
    CASE b1 = 224 -> 160 <= b2 /\ b2 <= 191
      [] b1 = 237 -> 128 <= b2 /\ b2 <= 159
      [] b1 = 240 -> 144 <= b2 /\ b2 <= 191
      [] b1 = 244 -> 128 <= b2 /\ b2 <= 143
      [] OTHER -> IsCont(b2)

RECURSIVE Utf8Decode(_)
Utf8Decode(bs) ==
    IF Len(bs) = 0 THEN <<>>
    ELSE LET b1 == bs[1]
             n == Len(bs)
             need == IF b1 < 128 THEN 1
                     ELSE IF 194 <= b1 /\ b1 <= 223 THEN 2
                     ELSE IF 224 <= b1 /\ b1 <= 239 THEN 3
                     ELSE IF 240 <= b1 /\ b1 <= 244 THEN 4
                     ELSE 0
             ok2 == n >= 2 /\ SecondByteOk(b1, bs[2])
             ok3 == ok2 /\ n >= 3 /\ IsCont(bs[3])
             ok4 == ok3 /\ n >= 4 /\ IsCont(bs[4])
             rest(k) == Utf8Decode(SubSeq(bs, k + 1, n))
         IN  IF need = 1 THEN <<b1>> \o rest(1)
             ELSE IF need = 0 THEN <<65533>> \o rest(1)
             ELSE IF ~ok2 THEN <<65533>> \o rest(1)
             ELSE IF need = 2 THEN <<(b1 - 192) * 64 + (bs[2] - 128)>> \o rest(2)
             ELSE IF ~ok3 THEN <<65533>> \o rest(2)
             ELSE IF need = 3
                  THEN <<(b1 - 224) * 4096 + (bs[2] - 128) * 64 + (bs[3] - 128)>> \o rest(3)
             ELSE IF ~ok4 THEN <<65533>> \o rest(3)
             ELSE <<(b1 - 240) * 262144 + (bs[2] - 128) * 4096
                    + (bs[3] - 128) * 64 + (bs[4] - 128)>> \o rest(4)

\* urllib.parse.unquote_to_bytes on ASCII text: %XX becomes that byte; a "%"
\* that two hexadecimal digits do not follow stays
RECURSIVE unquote_to_bytes(_)
unquote_to_bytes(x) ==
    IF Len(x) = 0 THEN <<>>
    ELSE IF /\ Head(x) = Cp("%") /\ Len(x) >= 3
            /\ IsHexCh(x[2]) /\ IsHexCh(x[3])
         THEN <<16 * HexChVal(x[2]) + HexChVal(x[3])>> \o unquote_to_bytes(From(x, 3))
         ELSE <<Head(x)>> \o unquote_to_bytes(Tail(x))

\* The length of the longest prefix of ASCII characters
RECURSIVE AsciiRunLen(_)
AsciiRunLen(x) ==
    IF Len(x) > 0 /\ Head(x) < 128 THEN 1 + AsciiRunLen(Tail(x)) ELSE 0

\* urllib.parse.unquote(name): each run of ASCII characters is turned into
\* bytes by unquote_to_bytes and decoded as UTF-8 with errors="replace"; the
\* other characters stay
RECURSIVE unquote(_)
unquote(name) ==
    IF Len(name) = 0 THEN <<>>
    ELSE LET k == AsciiRunLen(name)
         IN  IF k = 0 THEN <<Head(name)>> \o unquote(Tail(name))
             ELSE Utf8Decode(unquote_to_bytes(SubSeq(name, 1, k)))
                  \o unquote(From(name, k))

\* A plausible slip: the name is cut from the normalized (lower case) path.
_session_name_from_key_normalized(full_key) ==
    LET norm == _normalize_key(full_key)
        prefix == StripSet(SESSIONS_PREFIX_NORMALIZED, {Cp("\\")})
        suffix == StripSet(From(norm, Len(prefix)), {Cp("\\")})
        parts == Split(norm, Str("\\"))
    IN  IF ~StartsWith(norm, prefix) THEN [some |-> FALSE, name |-> <<>>]
        ELSE IF Len(suffix) = 0 THEN [some |-> FALSE, name |-> <<>>]
        ELSE IF Len(parts) < 2 THEN [some |-> FALSE, name |-> <<>>]
        ELSE [some |-> TRUE, name |-> unquote(parts[Len(parts)])]

\* _session_name_from_key(full_key): [some, name]; some = FALSE is None
_session_name_from_key(full_key) ==
    LET norm == _normalize_key(full_key)
        prefix == StripSet(SESSIONS_PREFIX_NORMALIZED, {Cp("\\")})
        suffix == StripSet(From(norm, Len(prefix)), {Cp("\\")})
        parts == Split(StripSet(Replace(full_key, Str("/"), Str("\\")), {Cp("\\")}), Str("\\"))
    IN  IF ~StartsWith(norm, prefix) THEN [some |-> FALSE, name |-> <<>>]
        ELSE IF Len(suffix) = 0 THEN [some |-> FALSE, name |-> <<>>]
        ELSE IF Len(parts) < 2 THEN [some |-> FALSE, name |-> <<>>]
        ELSE [some |-> TRUE, name |-> unquote(parts[Len(parts)])]

\* values.get(name) is a str
IsStrAt(values, name) == name \in DOMAIN values /\ values[name].t = "str"

\* Key paths: the container (bare, and with a trailing separator), children
\* (plain, lower case with forward slashes, nested, percent-encoded, the
\* template), names that decode to U+0060, to U+00E9, to U+FFFD, to U+20AC,
\* to U+0100 and to U+1F600, names in capitals holding U+00C9, U+1E9E (lower
\* case U+00DF), U+0130 (lower case "i" and U+0307) and a final U+03A3, a
\* container spelled with U+0130, a sibling of the container, a path under
\* the hive root, another key
FilterKeyPaths ==
    { SESSIONS_PREFIX,
      SESSIONS_PREFIX \o Str("\\"),
      SESSIONS_PREFIX \o Str("\\web"),
      Str("/software/simontatham/putty/sessions/web"),
      SESSIONS_PREFIX \o Str("\\grp\\db"),
      SESSIONS_PREFIX \o Str("\\my%20session"),
      SESSIONS_PREFIX \o Str("\\my session"),
      SESSIONS_PREFIX \o Str("\\Default%20Settings"),
      SESSIONS_PREFIX \o Str("\\Prod%2FDB"),
      SESSIONS_PREFIX \o Str("\\caf%C3%A9"),
      SESSIONS_PREFIX \o Str("\\caf%E9"),
      SESSIONS_PREFIX \o Str("\\a%60b"),
      SESSIONS_PREFIX \o Str("\\%E2%82%AC%C4%80"),
      SESSIONS_PREFIX \o Str("\\%F0%9F%98%80") \o <<8364>> \o Str("%41"),
      Str("\\SOFTWARE\\SIMONTATHAM\\PUTTY\\SESSIONS\\") \o <<201, 7838, 304, 65, 931>>,
      Str("\\Software\\S") \o <<304>> \o Str("monTatham\\PuTTY\\Sessions\\web"),
      Str("\\Software\\SimonTatham\\PuTTY\\SessionsOld"),
      Str("HKEY_CURRENT_USER\\Software\\SimonTatham\\PuTTY\\Sessions\\web"),
      Str("\\Software\\Other") }

\* Values of one key: Protocol and HostName missing, a str, or an int; the
\* strs with ASCII and other whitespace around them (U+00A0, U+000B, U+1680,
\* U+3000, U+0085, U+2028), and a protocol written with U+017F, whose upper
\* case form is "S"
FilterValueSet ==
    { MkData({<<"Protocol", pr>>, <<"HostName", hn>>}) :
        pr \in {Missing, StrVal(Str("ssh")), StrVal(Str(" SSH ")),
                StrVal(<<160>> \o Str("Ssh") \o <<11>>),
                StrVal(<<5760>> \o Str("sSH") \o <<12288>>),
                StrVal(<<383>> \o Str("sh")), StrVal(Str("telnet")), IntVal(0)},
        hn \in {Missing, StrVal(Str("h")), StrVal(Str("  ")), StrVal(<<133>>),
                StrVal(<<8232, 5760>>), IntVal(5)} }

\* Values of the keys of a tree with several keys: the host names tell the
\* keys apart
FilterSmallPaths ==
    { SESSIONS_PREFIX \o Str("\\web"),
      Str("/software/simontatham/putty/sessions/web"),
      SESSIONS_PREFIX \o Str("\\my%20session"),
      SESSIONS_PREFIX \o Str("\\my session"),
      Str("\\Software\\SimonTatham\\PuTTY\\SessionsOld") }
FilterSmallValues ==
    { MkData({<<"Protocol", StrVal(Str("ssh"))>>, <<"HostName", StrVal(Str("h1"))>>}),
      MkData({<<"Protocol", StrVal(Str("ssh"))>>, <<"HostName", StrVal(Str("h2"))>>}),
      MkData({<<"Protocol", StrVal(Str("telnet"))>>, <<"HostName", StrVal(Str("h1"))>>}) }

MaxKeys == 2

\* Insertion-ordered dicts with distinct keys
OrderedDicts(K, V, n) ==
    { d \in SeqsUpTo([k : K, v : V], n) :
        \A i, j \in 1..Len(d) : i # j => d[i].k # d[j].k }

FilterInit ==
    /\ \/ \E kp \in FilterKeyPaths, v \in FilterValueSet : keys = <<[k |-> kp, v |-> v]>>
       \/ keys \in OrderedDicts(FilterSmallPaths, FilterSmallValues, MaxKeys)
    /\ skip_default_settings \in BOOLEAN
    /\ f_i = 0 /\ f_state = "loop" /\ f_result = <<>> /\ f_kept = {}
    /\ DIdle /\ PIdle /\ CIdle /\ BIdle

\* One turn of `for full_key, values in keys.items()`
FilterStep ==
    /\ f_state = "loop" /\ f_i < Len(keys)
    /\ LET full_key == keys[f_i + 1].k
           values == keys[f_i + 1].v
           session_name == _session_name_from_key(full_key)
           protocol == IF IsStrAt(values, Str("Protocol"))
                       THEN Lower(Strip(values[Str("Protocol")].v)) ELSE <<>>
           hostname == IF IsStrAt(values, Str("HostName"))
                       THEN Strip(values[Str("HostName")].v) ELSE <<>>
       IN  IF ~session_name.some THEN UNCHANGED <<f_result, f_kept>>
           ELSE IF skip_default_settings /\ session_name.name = Str("Default Settings")
           THEN UNCHANGED <<f_result, f_kept>>
           ELSE IF protocol # Str("ssh") THEN UNCHANGED <<f_result, f_kept>>
           ELSE IF Len(hostname) = 0 THEN UNCHANGED <<f_result, f_kept>>
           ELSE /\ f_result' = DictSet(f_result, session_name.name, values)
                /\ f_kept' = f_kept \cup {f_i + 1}
    /\ f_i' = f_i + 1
    /\ UNCHANGED <<keys, skip_default_settings, f_state, dvars, pvars, cvars, bvars>>

\* `return result`
FilterReturn ==
    /\ f_state = "loop" /\ f_i = Len(keys)
    /\ f_state' = "returned"
    /\ UNCHANGED <<keys, skip_default_settings, f_i, f_result, f_kept,
                   dvars, pvars, cvars, bvars>>

FilterNext == FilterStep \/ FilterReturn

SpecFilter == FilterInit /\ [][FilterNext]_vars

\* The segments of a path, either slash direction, lower case, empty ones dropped
PathSegments(path) ==
    SelectSeq(Split(Lower(Replace(path, Str("/"), Str("\\"))), Str("\\")),
              LAMBDA x : x # <<>>)

\* The last non-empty segment of the path as written
LastSegment(path) ==
    LET segs == SelectSeq(Split(Replace(path, Str("/"), Str("\\")), Str("\\")),
                          LAMBDA x : x # <<>>)
    IN  IF Len(segs) = 0 THEN <<>> ELSE segs[Len(segs)]

ContainerSegments == <<Str("software"), Str("simontatham"), Str("putty"), Str("sessions")>>

\* The path is the container path, a separator and at least one more segment
ProperChild(path) ==
    /\ Len(PathSegments(path)) > Len(ContainerSegments)
    /\ SubSeq(PathSegments(path), 1, Len(ContainerSegments)) = ContainerSegments

\* C1: filter_ssh_sessions retains a key if and only if its path is a proper
\* child of the Sessions container, its Protocol is a string equal to "ssh"
\* (trimmed, any case), its HostName is a string that is non-empty when
\* trimmed, and its name is not "Default Settings" unless skip_default_settings
\* is False.
C1_RetainedIffAllFour ==
    f_state = "returned" =>
        \A i \in 1..Len(keys) :
            i \in f_kept <=>
                /\ ProperChild(keys[i].k)
                /\ IsStrAt(keys[i].v, Str("Protocol"))
                /\ Lower(Strip(keys[i].v[Str("Protocol")].v)) = Str("ssh")
                /\ IsStrAt(keys[i].v, Str("HostName"))
                /\ Strip(keys[i].v[Str("HostName")].v) # <<>>
                /\ \/ ~skip_default_settings
                   \/ unquote(LastSegment(keys[i].k)) # Str("Default Settings")

-----------------------------------------------------------------------------
(* ssh_config.py *)

\* The characters that are digits to str.isdigit() and not decimal digits
\* (superscripts, circled digits and the like), in ranges <<first, last>>
OtherDigitRanges ==
    {
      <<178, 179>>, <<185, 185>>, <<4969, 4977>>, <<6618, 6618>>,
      <<8304, 8304>>, <<8308, 8313>>, <<8320, 8329>>, <<9312, 9320>>,
      <<9332, 9340>>, <<9352, 9360>>, <<9450, 9450>>, <<9461, 9469>>,
      <<9471, 9471>>, <<10102, 10110>>, <<10112, 10120>>, <<10122, 10130>>,
      <<68160, 68163>>, <<69216, 69224>>, <<69714, 69722>>, <<127232, 127242>>
    }

\* c.isdigit() for one character
IsDigit(c) == DecimalOf(c) >= 0 \/ InRanges(c, OtherDigitRanges)

\* s.isdigit()
IsDigitStr(x) ==
    /\ Len(x) > 0
    /\ \A i \in 1..Len(x) : IsDigit(x[i])

\* int(s) for a string of decimal digits
RECURSIVE DecValue(_, _)
DecValue(x, acc) ==
    IF Len(x) = 0 THEN acc
    ELSE DecValue(Tail(x), 10 * acc + DecimalOf(Head(x)))

\* str(n), as an f-string formats an int
RECURSIVE IntToStr(_)
IntToStr(n) ==
    IF n < 0 THEN Str("-") \o IntToStr(0 - n)
    ELSE IF n < 10 THEN <<48 + n>>
    ELSE Append(IntToStr(n \div 10), 48 + (n % 10))

_get_str(data, key, default) ==
    IF key \in DOMAIN data /\ data[key].t = "str" THEN Strip(data[key].v) ELSE default

\* The most digits int() converts from a decimal text
\* (sys.int_info.default_max_str_digits)
IntMaxStrDigits == 4300

\* int(s) for a string that passed isdigit(): [ok, v]; ok = FALSE is
\* ValueError, raised for a digit that is not a decimal digit and for more
\* than IntMaxStrDigits digits
PyIntOfDigits(x) ==
    IF Len(x) <= IntMaxStrDigits /\ \A i \in 1..Len(x) : DecimalOf(x[i]) >= 0
    THEN LET nonzero == {i \in 1..Len(x) : DecimalOf(x[i]) # 0}
             first == CHOOSE i \in nonzero : \A j \in nonzero : i <= j
         IN  [ok |-> TRUE,
              v |-> IF nonzero = {} THEN 0 ELSE DecValue(SubSeq(x, first, Len(x)), 0)]
    ELSE [ok |-> FALSE, v |-> 0]

\* [ok, v]; ok = FALSE is the ValueError of int(v.strip())
_get_int(data, key, default) ==
    IF key \in DOMAIN data /\ data[key].t = "int" THEN [ok |-> TRUE, v |-> data[key].v]
    ELSE IF key \in DOMAIN data /\ data[key].t = "str" /\ IsDigitStr(Strip(data[key].v))
    THEN PyIntOfDigits(Strip(data[key].v))
    ELSE [ok |-> TRUE, v |-> default]

\* re.search(r'[\s#"\\]', s)
NeedsQuote(x) ==
    \E i \in 1..Len(x) : IsSpace(x[i]) \/ x[i] \in {Cp("#"), Cp("\""), Cp("\\")}

\* A plausible slip: the quotes are escaped first, so their backslashes are doubled.
_quote_value_quotes_first(x) ==
    IF Len(x) = 0 THEN Str("\"\"")
    ELSE IF NeedsQuote(x)
    THEN Str("\"") \o Replace(Replace(x, Str("\""), Str("\\\"")), Str("\\"), Str("\\\\"))
         \o Str("\"")
    ELSE x

_quote_value(x) ==
    IF Len(x) = 0 THEN Str("\"\"")
    ELSE IF NeedsQuote(x)
    THEN Str("\"") \o Replace(Replace(x, Str("\\"), Str("\\\\")), Str("\""), Str("\\\""))
         \o Str("\"")
    ELSE x

\* [ok, some, line]; ok = FALSE is the ValueError of _get_int, some = FALSE
\* is None
_build_proxy_directive(data) ==
    LET method_r == _get_int(data, Str("ProxyMethod"), 0)
        method == method_r.v
        host == _get_str(data, Str("ProxyHost"), <<>>)
        port_r == _get_int(data, Str("ProxyPort"), 80)
        port == port_r.v
        username == _get_str(data, Str("ProxyUsername"), <<>>)
        cmd == _get_str(data, Str("ProxyTelnetCommand"), <<>>)
        none == [ok |-> TRUE, some |-> FALSE, line |-> <<>>]
        raised == [ok |-> FALSE, some |-> FALSE, line |-> <<>>]
    IN  IF ~method_r.ok THEN raised
        ELSE IF method = 0 \/ Len(host) = 0 THEN none
        ELSE IF ~port_r.ok THEN raised
        ELSE IF method = 5
        THEN IF Len(username) > 0
             THEN [ok |-> TRUE, some |-> TRUE,
                   line |-> Str("  ProxyJump ") \o username \o Str("@") \o host]
             ELSE [ok |-> TRUE, some |-> TRUE, line |-> Str("  ProxyJump ") \o host]
        ELSE IF method = 1
        THEN [ok |-> TRUE, some |-> TRUE,
              line |-> Str("  ProxyCommand nc -x ") \o host \o Str(":") \o IntToStr(port)
                       \o Str(" %h %p")]
        ELSE IF method = 2
        THEN [ok |-> TRUE, some |-> TRUE,
              line |-> Str("  ProxyCommand connect -H ") \o host \o Str(":") \o IntToStr(port)
                       \o Str(" %h %p")]
        ELSE IF method \in {3, 4}
        THEN IF Len(cmd) > 0
             THEN [ok |-> TRUE, some |-> TRUE, line |-> Str("  ProxyCommand ") \o
                      Replace(Replace(cmd, Str("%host"), Str("%h")), Str("%port"), Str("%p"))]
             ELSE none
        ELSE none

\* The directive of one part of the specification, already stripped and
\* non-empty: a sequence of zero or one <<directive_name, value>>
ForwardOfPart(part) ==
    LET rest == From(part, 1)
        eq == Find(rest, Str("="))
        left == SubSeq(rest, 1, eq - 1)
        right == From(rest, eq)
        lr(name) == IF eq > 0 THEN <<<<name, Strip(left) \o Str(" ") \o Strip(right)>>>>
                    ELSE <<<<name, rest>>>>
    IN  IF StartsWith(part, Str("L")) THEN lr(Str("LocalForward"))
        ELSE IF StartsWith(part, Str("R")) THEN lr(Str("RemoteForward"))
        ELSE IF StartsWith(part, Str("D"))
        THEN (IF Len(Strip(rest)) > 0 THEN <<<<Str("DynamicForward"), Strip(rest)>>>> ELSE <<>>)
        ELSE <<>>

\* The for loop of _parse_port_forwardings over raw.split(",")
RECURSIVE ForwardsOfParts(_)
ForwardsOfParts(parts) ==
    IF Len(parts) = 0 THEN <<>>
    ELSE (IF Len(Strip(Head(parts))) = 0 THEN <<>> ELSE ForwardOfPart(Strip(Head(parts))))
         \o ForwardsOfParts(Tail(parts))

\* A plausible slip: the value is split on the last "=", not the first.
RECURSIVE FindLast(_, _)
FindLast(x, c) ==
    IF Len(x) = 0 THEN 0
    ELSE IF x[Len(x)] = c THEN Len(x)
    ELSE FindLast(SubSeq(x, 1, Len(x) - 1), c)

ForwardOfPartLastEq(part) ==
    LET rest == From(part, 1)
        eq == FindLast(rest, Cp("="))
        left == SubSeq(rest, 1, eq - 1)
        right == From(rest, eq)
        lr(name) == IF eq > 0 THEN <<<<name, Strip(left) \o Str(" ") \o Strip(right)>>>>
                    ELSE <<<<name, rest>>>>
    IN  IF StartsWith(part, Str("L")) THEN lr(Str("LocalForward"))
        ELSE IF StartsWith(part, Str("R")) THEN lr(Str("RemoteForward"))
        ELSE IF StartsWith(part, Str("D"))
        THEN (IF Len(Strip(rest)) > 0 THEN <<<<Str("DynamicForward"), Strip(rest)>>>> ELSE <<>>)
        ELSE <<>>

RECURSIVE ForwardsOfPartsLastEq(_)
ForwardsOfPartsLastEq(parts) ==
    IF Len(parts) = 0 THEN <<>>
    ELSE (IF Len(Strip(Head(parts))) = 0 THEN <<>> ELSE ForwardOfPartLastEq(Strip(Head(parts))))
         \o ForwardsOfPartsLastEq(Tail(parts))

_parse_port_forwardings_last_eq(raw) ==
    IF Len(raw) = 0 \/ Len(Strip(raw)) = 0 THEN <<>>
    ELSE ForwardsOfPartsLastEq(Split(raw, Str(",")))

_parse_port_forwardings(raw) ==
    IF Len(raw) = 0 \/ Len(Strip(raw)) = 0 THEN <<>>
    ELSE ForwardsOfParts(Split(raw, Str(",")))

_identity_file_path(path) ==
    IF Len(path) = 0 THEN path ELSE Replace(path, Str("\\"), Str("/"))

\* truthiness of an int
Truthy(n) == n # 0

\* The list lines of build_host_block when it returns: [ok, lines]; ok = FALSE
\* is the ValueError of a _get_int call
build_host_block_lines(session_name, data) ==
    LET hostname == _get_str(data, Str("HostName"), <<>>)
        port == _get_int(data, Str("PortNumber"), 22)
        user == _get_str(data, Str("UserName"), <<>>)
        identity == _get_str(data, Str("PublicKeyFile"), <<>>)
        proxy == _build_proxy_directive(data)
        port_fwd == _get_str(data, Str("PortForwardings"), <<>>)
        fwd == _parse_port_forwardings(port_fwd)
        agent_fwd == _get_int(data, Str("AgentFwd"), 0)
        compression == _get_int(data, Str("Compression"), 0)
        x11 == _get_int(data, Str("X11Forward"), 0)
    IN  IF ~(port.ok /\ proxy.ok /\ agent_fwd.ok /\ compression.ok /\ x11.ok)
        THEN [ok |-> FALSE, lines |-> <<>>]
        ELSE [ok |-> TRUE, lines |->
            <<Str("Host ") \o _quote_value(session_name)>>
            \o (IF Len(hostname) > 0 THEN <<Str("  HostName ") \o hostname>> ELSE <<>>)
            \o (IF port.v # 22 THEN <<Str("  Port ") \o IntToStr(port.v)>>
                ELSE <<Str("  Port 22")>>)
            \o (IF Len(user) > 0 THEN <<Str("  User ") \o user>> ELSE <<>>)
            \o (IF Len(identity) > 0
                THEN <<Str("  IdentityFile ") \o _quote_value(_identity_file_path(identity))>>
                ELSE <<>>)
            \o (IF proxy.some /\ Len(proxy.line) > 0 THEN <<proxy.line>> ELSE <<>>)
            \o [i \in 1..Len(fwd) |-> Str("  ") \o fwd[i][1] \o Str(" ") \o fwd[i][2]]
            \o (IF Truthy(agent_fwd.v) THEN <<Str("  ForwardAgent yes")>> ELSE <<>>)
            \o (IF Truthy(compression.v) THEN <<Str("  Compression yes")>> ELSE <<>>)
            \o (IF Truthy(x11.v) THEN <<Str("  ForwardX11 yes")>> ELSE <<>>)]

\* [ok, text]; ok = FALSE is ValueError
build_host_block(session_name, data) ==
    LET r == build_host_block_lines(session_name, data)
    IN  [ok |-> r.ok, text |-> Join(r.lines, <<10>>)]

\* sorted(names): insertion into a sorted list, by str comparison
RECURSIVE InsertSorted(_, _)
InsertSorted(sorted, x) ==
    IF Len(sorted) = 0 THEN <<x>>
    ELSE IF StrLess(x, Head(sorted)) THEN <<x>> \o sorted
    ELSE <<Head(sorted)>> \o InsertSorted(Tail(sorted), x)

RECURSIVE Sorted(_)
Sorted(xs) ==
    IF Len(xs) = 0 THEN <<>>
    ELSE InsertSorted(Sorted(SubSeq(xs, 1, Len(xs) - 1)), xs[Len(xs)])

\* list(d.keys())
DictKeys(d) == [i \in 1..Len(d) |-> d[i].k]

\* sorted(sessions.keys())
session_names_sorted(d) == Sorted(DictKeys(d))

\* A plausible slip: every block is followed by a blank line.
join_blocks_trailing(bs) ==
    IF Len(bs) = 0 THEN <<>> ELSE Join(bs, <<10, 10>>) \o <<10, 10>>

\* "\n\n".join(blocks)
join_blocks(bs) == Join(bs, <<10, 10>>)

-----------------------------------------------------------------------------
(* build_host_block applied to drawn sessions *)

\* A session with every kind of directive, the fields drawn one family at a time
BasicData ==
    { MkData({<<"HostName", hn>>, <<"PortNumber", pn>>, <<"UserName", un>>,
              <<"PublicKeyFile", kf>>, <<"ProxyMethod", pm>>,
              <<"ProxyHost", StrVal(Str("jump"))>>, <<"PortForwardings", pf>>,
              <<"AgentFwd", af>>, <<"Compression", co>>, <<"X11Forward", xf>>}) :
        hn \in {Missing, StrVal(Str("h")), StrVal(Str("h\nx"))},
        pn \in {Missing, IntVal(22), IntVal(2222), StrVal(Str("2200"))},
        un \in {Missing, StrVal(Str("u"))},
        kf \in {Missing, StrVal(Str("C:\\k y.ppk"))},
        pm \in {Missing, IntVal(5)},
        pf \in {Missing, StrVal(Str("L1=a,D2"))},
        af \in {Missing, IntVal(0), IntVal(1)},
        co \in {Missing, IntVal(1)},
        xf \in {Missing, IntVal(1)} }

\* A text of one digit more than int() converts
LongDigits == [i \in 1..(IntMaxStrDigits + 1) |-> Cp("1")]

\* Proxy settings: every method code, as an int and as a str ("5", the
\* superscript two U+00B2, the Bengali digit five U+09EB); hosts; ports (one
\* ending in the superscript one U+00B9, one in fullwidth digits U+FF18
\* U+FF10, one of too many digits)
ProxyData ==
    { MkData({<<"HostName", StrVal(Str("h"))>>, <<"ProxyMethod", pm>>, <<"ProxyHost", ph>>,
              <<"ProxyPort", pp>>, <<"ProxyUsername", pu>>,
              <<"ProxyTelnetCommand", pt>>}) :
        pm \in {Missing, IntVal(0), IntVal(1), IntVal(2), IntVal(3), IntVal(4),
                IntVal(5), IntVal(6), StrVal(Str("5")), StrVal(<<178>>), StrVal(<<2539>>)},
        ph \in {Missing, StrVal(<<>>), StrVal(Str(" ")), StrVal(Str("proxy.example.com"))},
        pp \in {Missing, IntVal(1080), StrVal(Str("1") \o <<185>>),
                StrVal(<<65304, 65296>>), StrVal(LongDigits)},
        pu \in {Missing, StrVal(Str("user"))},
        pt \in {Missing, StrVal(<<>>), StrVal(Str("nc %host %port")),
                StrVal(Str("c %porthost%%host %hos")), StrVal(Str("a\nb %port"))} }

\* The fields read by _get_int as strs: a digit between whitespace that is
\* not ASCII (U+000B, U+00A0), the superscript two (U+00B2), a digit that is
\* not a decimal digit, Bengali digits (U+09E7 U+09E8) after U+1680, and a
\* text of too many digits
IntFieldData ==
    { MkData({<<"HostName", StrVal(Str("h"))>>, <<"PortNumber", pn>>, <<"AgentFwd", af>>,
              <<"Compression", co>>, <<"X11Forward", xf>>}) :
        pn, af, co, xf \in {Missing, IntVal(1), StrVal(<<11>> \o Str("9") \o <<160>>),
                            StrVal(<<178>>), StrVal(<<5760, 2535, 2536>>)} }
    \cup
    { MkData({<<"HostName", StrVal(Str("h"))>>, <<"PortNumber", pn>>, <<"AgentFwd", af>>,
              <<"Compression", co>>, <<"X11Forward", xf>>}) :
        pn, af, co, xf \in {Missing, StrVal(LongDigits)} }

\* Tokens of a port forwarding specification
MaxFwdTokens == 3
FwdTokenSet ==
    { Str("L8080=localhost:80"), Str("R9022=localhost:22"), Str("D1080"), Str("L80"),
      Str("R"), Str("D"), Str("X1"), <<>>, Str(" L1 = a "), Str("La=b=c"),
      <<11>> \o Str("D1") \o <<160>>, <<8195>> \o Str("L2") \o <<5760>> \o Str("=b") }
FwdData ==
    { MkData({<<"HostName", StrVal(Str("h"))>>,
              <<"PortForwardings", StrVal(Join(ts, Str(",")))>>}) :
        ts \in SeqsUpTo(FwdTokenSet, MaxFwdTokens) }
    \cup {MkData({<<"HostName", StrVal(Str("h"))>>, <<"PortForwardings", IntVal(1)>>})}

\* Host aliases and key file paths with and without the characters that
\* call for quoting; whitespace that is not ASCII (U+00A0, U+001C, U+1680,
\* U+2028), and characters above U+00FF that are no whitespace (U+20AC,
\* U+200B)
QuoteNames ==
    { <<>>, Str("web"), Str("a-b_c.d"), Str("a b"), Str("a\tb"), Str("a\nb"), Str("a#b"),
      Str("a\"b"), Str("a\\b"), Str("a\\\"b"), Str("\""), Str("\\"),
      <<97, 160, 98>>, <<97, 28, 98>>, <<97, 5760, 98>>, <<8232>>, <<97, 8364, 98>>,
      <<97, 8203, 98>>, <<97, 96, 98>> }
QuotePaths ==
    { Missing, StrVal(Str("k")), StrVal(Str("C:\\k\\id.ppk")), StrVal(Str("k#1")),
      StrVal(Str("k\"q\\")), StrVal(Str(" k ")), StrVal(Str("~/my keys/id")),
      StrVal(<<133, 107, 160>>), StrVal(<<12288, 107, 8201, 107, 5760>>) }
QuoteData ==
    { MkData({<<"HostName", StrVal(Str("h"))>>, <<"PublicKeyFile", kf>>}) : kf \in QuotePaths }

BlockInit ==
    /\ \/ b_name \in {Str("web"), Str("my session")} /\ b_data \in BasicData
       \/ b_name = Str("web") /\ b_data \in ProxyData \cup FwdData \cup IntFieldData
       \/ b_name \in QuoteNames /\ b_data \in QuoteData
    /\ b_state = "ready"
    /\ b_proxy = [ok |-> TRUE, some |-> FALSE, line |-> <<>>] /\ b_fwd = <<>>
    /\ b_lines = <<>> /\ b_text = <<>>
    /\ DIdle /\ PIdle /\ FIdle /\ CIdle

\* One call of build_host_block: it returns the block, or a _get_int call
\* raises ValueError (PortNumber first, then the proxy fields, then the
\* flags, read after the port forwardings)
BuildHostBlock ==
    /\ b_state = "ready"
    /\ b_proxy' = IF _get_int(b_data, Str("PortNumber"), 22).ok
                  THEN _build_proxy_directive(b_data) ELSE b_proxy
    /\ b_fwd' = IF /\ _get_int(b_data, Str("PortNumber"), 22).ok
                   /\ _build_proxy_directive(b_data).ok
                THEN _parse_port_forwardings(_get_str(b_data, Str("PortForwardings"), <<>>))
                ELSE b_fwd
    /\ IF build_host_block(b_name, b_data).ok
       THEN /\ b_lines' = build_host_block_lines(b_name, b_data).lines
            /\ b_text' = build_host_block(b_name, b_data).text
            /\ b_state' = "returned"
       ELSE /\ b_state' = "raised"
            /\ UNCHANGED <<b_lines, b_text>>
    /\ UNCHANGED <<b_name, b_data, dvars, pvars, fvars, cvars>>

BlockNext == BuildHostBlock

SpecBlock == BlockInit /\ [][BlockNext]_vars

-----------------------------------------------------------------------------
(* build_ssh_config applied to drawn session mappings *)

\* Names: "a", "z", "Z", "ab", "my session", "a\nb", U+00E9, U+20AC and
\* U+1F600
MaxSessions == 2
ConfigNames ==
    { Str("a"), Str("z"), Str("Z"), Str("ab"), Str("my session"), Str("a\nb"),
      <<233>>, <<8364>>, <<128512>> }
ConfigValues ==
    { MkData({<<"Protocol", StrVal(Str("ssh"))>>, <<"HostName", StrVal(Str("h"))>>}),
      MkData({<<"Protocol", StrVal(Str("ssh"))>>, <<"HostName", StrVal(Str("h\n\nx"))>>,
              <<"UserName", StrVal(Str("u\n"))>>}),
      MkData({<<"Protocol", StrVal(Str("ssh"))>>, <<"HostName", StrVal(Str("h"))>>,
              <<"PortForwardings", StrVal(Str("L"))>>, <<"X11Forward", IntVal(0)>>}),
      MkData({<<"Protocol", StrVal(Str("ssh"))>>, <<"HostName", StrVal(Str("h"))>>,
              <<"PortNumber", StrVal(<<178>>)>>}) }

\* Sessions "a" and "z" with and without a flag of too many digits
LongConfigNames == {Str("a"), Str("z")}
LongConfigValues ==
    { MkData({<<"Protocol", StrVal(Str("ssh"))>>, <<"HostName", StrVal(Str("h"))>>}),
      MkData({<<"Protocol", StrVal(Str("ssh"))>>, <<"HostName", StrVal(Str("h"))>>,
              <<"AgentFwd", StrVal(LongDigits)>>}) }

ConfigInit ==
    /\ sessions \in OrderedDicts(ConfigNames, ConfigValues, MaxSessions)
                    \cup OrderedDicts(LongConfigNames, LongConfigValues, MaxSessions)
    /\ c_state = "loop" /\ c_i = 0 /\ blocks = <<>> /\ config = <<>>
    /\ DIdle /\ PIdle /\ FIdle /\ BIdle

\* One turn of `for name in sorted(sessions.keys())`
AppendBlock ==
    /\ c_state = "loop" /\ c_i < Len(sessions)
    /\ LET name == session_names_sorted(sessions)[c_i + 1]
           block == build_host_block(name, DictGet(sessions, name))
       IN  IF block.ok
           THEN /\ blocks' = Append(blocks, block.text)
                /\ c_i' = c_i + 1
                /\ c_state' = "loop"
           ELSE \* build_host_block raises ValueError
                /\ c_state' = "raised"
                /\ UNCHANGED <<blocks, c_i>>
    /\ UNCHANGED <<sessions, config, dvars, pvars, fvars, bvars>>

\* return "\n\n".join(blocks)
ConfigReturn ==
    /\ c_state = "loop" /\ c_i = Len(sessions)
    /\ config' = join_blocks(blocks)
    /\ c_state' = "returned"
    /\ UNCHANGED <<sessions, c_i, blocks, dvars, pvars, fvars, bvars>>

ConfigNext == AppendBlock \/ ConfigReturn

SpecConfig == ConfigInit /\ [][ConfigNext]_vars

-----------------------------------------------------------------------------
(* Claims about the config generator *)

\* The block that build_host_block returns for the i-th item of sessions
BlockOfItem(i) == build_host_block(sessions[i].k, sessions[i].v).text

\* C6: for every session mapping, the call of build_ssh_config ends by
\* returning, with exactly one Host block per session, and the block of a
\* smaller name (plain string order) precedes the block of a larger name,
\* whatever the order of the mapping.
C6_OneBlockPerSessionSorted ==
    c_state \in {"returned", "raised"} =>
        /\ c_state = "returned"
        /\ Len(blocks) = Len(sessions)
        /\ \A i \in 1..Len(sessions) :
               Cardinality({a \in 1..Len(blocks) : blocks[a] = BlockOfItem(i)}) = 1
        /\ \A i, j \in 1..Len(sessions) :
               StrLess(sessions[i].k, sessions[j].k) =>
                   \E a, b \in 1..Len(blocks) :
                       a < b /\ blocks[a] = BlockOfItem(i) /\ blocks[b] = BlockOfItem(j)

\* The offset in the document at which the a-th block starts
RECURSIVE BlockOffset(_)
BlockOffset(a) ==
    IF a = 1 THEN 0 ELSE BlockOffset(a - 1) + Len(blocks[a - 1]) + 2

\* C7: in the returned document consecutive Host blocks are separated by
\* exactly one blank line, and the document has no leading and no trailing
\* blank line, for zero, one or many sessions.
C7_OneBlankLineBetweenBlocks ==
    c_state = "returned" =>
        LET n == Len(blocks)
        IN  /\ n = 0 => config = <<>>
            /\ \A a \in 1..n :
                   /\ Len(blocks[a]) > 0
                   /\ Head(blocks[a]) # 10
                   /\ blocks[a][Len(blocks[a])] # 10
                   /\ SubSeq(config, BlockOffset(a) + 1, BlockOffset(a) + Len(blocks[a]))
                          = blocks[a]
            /\ \A a \in 1..(n - 1) :
                   SubSeq(config, BlockOffset(a) + Len(blocks[a]) + 1,
                                  BlockOffset(a) + Len(blocks[a]) + 2) = <<10, 10>>
            /\ n > 0 => Len(config) = BlockOffset(n) + Len(blocks[n])

\* Two sessions, one with a host name that holds line breaks, were written
C7_Witness ==
    /\ c_state = "returned" /\ Len(sessions) = 2
    /\ \E i \in 1..2 : sessions[i].v[Str("HostName")].v = Str("h\n\nx")
    /\ Contains(config, Str("\n\nHost "))

\* The directive name of an indented line
DirectiveWord(line) ==
    LET body == From(line, 2)
        sp == Find(body, Str(" "))
    IN  IF sp = 0 THEN body ELSE SubSeq(body, 1, sp - 1)

\* The place of a directive in the fixed order; 0 for no directive
DirectiveRank(w) ==
    CASE w = Str("HostName") -> 1
      [] w = Str("Port") -> 2
      [] w = Str("User") -> 3
      [] w = Str("IdentityFile") -> 4
      [] w \in {Str("ProxyCommand"), Str("ProxyJump")} -> 5
      [] w \in {Str("LocalForward"), Str("RemoteForward"), Str("DynamicForward")} -> 6
      [] w = Str("ForwardAgent") -> 7
      [] w = Str("Compression") -> 8
      [] w = Str("ForwardX11") -> 9
      [] OTHER -> 0

LineRank(line) == DirectiveRank(DirectiveWord(line))

\* C8: the returned block starts with the unindented Host line; its other
\* lines are the directives, in the order HostName, Port, User, IdentityFile,
\* proxy, port forwardings (in the order of the tokens), ForwardAgent,
\* Compression, ForwardX11, each indented by two spaces; the Port line is in
\* every block, with 22 when no port is set.
C8_FixedDirectiveOrder ==
    b_state = "returned" =>
        \A lines \in {Split(b_text, Str("\n"))} :
            /\ Len(lines) >= 2
            /\ StartsWith(lines[1], Str("Host "))
            /\ \A i \in 2..Len(lines) :
                   /\ StartsWith(lines[i], Str("  "))
                   /\ Len(lines[i]) > 2 /\ lines[i][3] # Cp(" ")
                   /\ LineRank(lines[i]) > 0
            /\ \A i, j \in 2..Len(lines) :
                   i < j => \/ LineRank(lines[i]) < LineRank(lines[j])
                            \/ LineRank(lines[i]) = 6 /\ LineRank(lines[j]) = 6
            /\ Cardinality({i \in 2..Len(lines) : DirectiveWord(lines[i]) = Str("Port")}) = 1
            /\ Str("PortNumber") \notin DOMAIN b_data =>
                   \E i \in 2..Len(lines) : lines[i] = Str("  Port 22")
            /\ SelectSeq(lines, LAMBDA l : LineRank(l) = 6)
                   = [i \in 1..Len(b_fwd) |->
                          Str("  ") \o b_fwd[i][1] \o Str(" ") \o b_fwd[i][2]]

\* cmd with every %host and %port replaced, in one pass from the left
RECURSIVE PlaceholdersReplaced(_)
PlaceholdersReplaced(cmd) ==
    IF Len(cmd) = 0 THEN <<>>
    ELSE IF StartsWith(cmd, Str("%host")) THEN Str("%h") \o PlaceholdersReplaced(From(cmd, 5))
    ELSE IF StartsWith(cmd, Str("%port")) THEN Str("%p") \o PlaceholdersReplaced(From(cmd, 5))
    ELSE <<Head(cmd)>> \o PlaceholdersReplaced(Tail(cmd))

\* build_host_block got as far as its call of _build_proxy_directive
ProxyCalled ==
    b_state \in {"returned", "raised"} /\ _get_int(b_data, Str("PortNumber"), 22).ok

\* C9: the call of _build_proxy_directive returns, with
\* at most one proxy directive, fixed by the method code: none for code 0 or an
\* empty proxy host; code 5 gives ProxyJump user@host, or ProxyJump host
\* without a user name; codes 1 and 2 give a ProxyCommand with host:port (80
\* when unset) and %h %p; codes 3 and 4 give ProxyCommand with the custom
\* command, %host and %port replaced by %h and %p, or none when the command is
\* empty; every other code gives none.
C9_ProxyByMethod ==
    ProxyCalled =>
        LET method == _get_int(b_data, Str("ProxyMethod"), 0).v
            host == _get_str(b_data, Str("ProxyHost"), <<>>)
            user == _get_str(b_data, Str("ProxyUsername"), <<>>)
            cmd == _get_str(b_data, Str("ProxyTelnetCommand"), <<>>)
            port == _get_int(b_data, Str("ProxyPort"), 80).v
            line == b_proxy.line
        IN  /\ b_proxy.ok
            /\ ~b_proxy.some => line = <<>>
            /\ (method = 0 \/ host = <<>>) => ~b_proxy.some
            /\ (method = 5 /\ host # <<>> /\ user # <<>>) =>
                   b_proxy.some /\ line = Str("  ProxyJump ") \o user \o Str("@") \o host
            /\ (method = 5 /\ host # <<>> /\ user = <<>>) =>
                   b_proxy.some /\ line = Str("  ProxyJump ") \o host
            /\ (method \in {1, 2} /\ host # <<>>) =>
                   /\ b_proxy.some
                   /\ StartsWith(line, Str("  ProxyCommand "))
                   /\ Contains(line, Str(" ") \o host \o Str(":") \o IntToStr(port)
                                     \o Str(" %h %p"))
            /\ (method \in {3, 4} /\ host # <<>> /\ cmd # <<>>) =>
                   b_proxy.some /\ line = Str("  ProxyCommand ") \o PlaceholdersReplaced(cmd)
            /\ (method \in {3, 4} /\ cmd = <<>>) => ~b_proxy.some
            /\ method \notin {1, 2, 3, 4, 5} => ~b_proxy.some

\* The tokens of a specification: its comma-delimited parts, trimmed, the
\* empty ones dropped
FwdTokens(raw) ==
    SelectSeq([i \in 1..Len(Split(raw, Str(","))) |-> Strip(Split(raw, Str(","))[i])],
              LAMBDA t : t # <<>>)

\* The token gives a directive
FwdEmits(t) ==
    \/ Head(t) \in {Cp("L"), Cp("R")}
    \/ Head(t) = Cp("D") /\ Strip(Tail(t)) # <<>>

FwdName(t) ==
    CASE Head(t) = Cp("L") -> Str("LocalForward")
      [] Head(t) = Cp("R") -> Str("RemoteForward")
      [] Head(t) = Cp("D") -> Str("DynamicForward")

FwdValue(t) ==
    LET rest == Tail(t)
        eq == Find(rest, Str("="))
    IN  IF Head(t) = Cp("D") THEN Strip(rest)
        ELSE IF eq = 0 THEN rest
        ELSE Strip(SubSeq(rest, 1, eq - 1)) \o Str(" ")
             \o Strip(SubSeq(rest, eq + 1, Len(rest)))

\* The token gives a directive, by its first character as it stands
RawFwdEmits(t) ==
    /\ Len(t) > 0
    /\ \/ Head(t) \in {Cp("L"), Cp("R")}
       \/ Head(t) = Cp("D") /\ Tail(t) # <<>>

\* The value of the directive, the parts of the token as they stand
RawFwdValue(t) ==
    LET rest == Tail(t)
        eq == Find(rest, Str("="))
    IN  IF Head(t) = Cp("D") \/ eq = 0 THEN rest
        ELSE SubSeq(rest, 1, eq - 1) \o Str(" ") \o SubSeq(rest, eq + 1, Len(rest))

\* C10 as stated: each comma-delimited token of the specification handed to
\* _parse_port_forwardings, in order, gives by its first character: L
\* LocalForward and R RemoteForward, with the part before the first "=" and the
\* part after it joined by one space, or the raw remainder when there is no
\* "="; D DynamicForward with the remainder, only when that is non-empty; any
\* other first character nothing.
C10_ForwardPerRawToken ==
    b_state = "returned" =>
        \A emitting \in {SelectSeq(Split(_get_str(b_data, Str("PortForwardings"), <<>>),
                                        Str(",")), RawFwdEmits)} :
            /\ Len(b_fwd) = Len(emitting)
            /\ \A k \in 1..Len(emitting) :
                   b_fwd[k] = <<FwdName(emitting[k]), RawFwdValue(emitting[k])>>

\* C10, amended: each comma-delimited token of the specification, trimmed of
\* surrounding whitespace and passed over when empty, gives in order by its
\* first character: L LocalForward and R RemoteForward, with the part before
\* the first "=" and the part after it, each trimmed, joined by one space, or
\* the remainder after the letter when there is no "="; D DynamicForward with
\* the trimmed remainder, only when that is non-empty; any other first
\* character nothing.
C10_ForwardPerToken ==
    b_state = "returned" =>
        LET raw == IF Str("PortForwardings") \in DOMAIN b_data
                      /\ b_data[Str("PortForwardings")].t = "str"
                   THEN b_data[Str("PortForwardings")].v ELSE <<>>
            emitting == SelectSeq(FwdTokens(raw), FwdEmits)
        IN  /\ Len(b_fwd) = Len(emitting)
            /\ \A k \in 1..Len(emitting) :
                   b_fwd[k] = <<FwdName(emitting[k]), FwdValue(emitting[k])>>

\* A specification with a token between spaces, and spaces around its "=",
\* gave its three directives
C10_Witness ==
    /\ b_state = "returned"
    /\ Str("PortForwardings") \in DOMAIN b_data
    /\ b_data[Str("PortForwardings")]
           = StrVal(Str("L8080=localhost:80, L1 = a ,D1080"))
    /\ b_fwd = << <<Str("LocalForward"), Str("8080 localhost:80")>>,
                  <<Str("LocalForward"), Str("1 a")>>,
                  <<Str("DynamicForward"), Str("1080")>> >>

-----------------------------------------------------------------------------
(* Claims about quoting *)

\* The value has a character that calls for quotes
HasSpecial(x) ==
    \E i \in 1..Len(x) : x[i] \in WhiteSpace \cup {Cp("#"), Cp("\""), Cp("\\")}

\* The value with a backslash put before each backslash and each double quote
RECURSIVE Escaped(_)
Escaped(x) ==
    IF Len(x) = 0 THEN <<>>
    ELSE (IF Head(x) \in {Cp("\\"), Cp("\"")} THEN Str("\\") ELSE <<>>)
         \o <<Head(x)>> \o Escaped(Tail(x))

Quoted(x) ==
    IF Len(x) = 0 THEN Str("\"\"")
    ELSE IF HasSpecial(x) THEN Str("\"") \o Escaped(x) \o Str("\"")
    ELSE x

\* The key file path of the session, trimmed, with forward slashes
IdentityPath(data) == Replace(_get_str(data, Str("PublicKeyFile"), <<>>), Str("\\"), Str("/"))

\* C11: the Host alias and the identity file path are written by
\* _quote_value: in double quotes, with every backslash and double quote
\* escaped, exactly when the value has whitespace, "#", a double quote or a
\* backslash; unchanged when it is non-empty without these; as the empty
\* quote token when it is empty.
C11_QuotedExactlyWhenSpecial ==
    b_state = "returned" =>
        /\ b_lines[1] = Str("Host ") \o Quoted(b_name)
        /\ _quote_value(b_name) = Quoted(b_name)
        /\ IdentityPath(b_data) # <<>> =>
               \E i \in 2..Len(b_lines) :
                   b_lines[i] = Str("  IdentityFile ") \o Quoted(IdentityPath(b_data))

\* An alias with a backslash and a double quote, and a key path with a space
C11_Witness ==
    /\ b_state = "returned"
    /\ b_name = Str("a\\\"b")
    /\ b_lines[1] = Str("Host \"a\\\\\\\"b\"")
    /\ \E i \in 2..Len(b_lines) : b_lines[i] = Str("  IdentityFile \"~/my keys/id\"")

-----------------------------------------------------------------------------
(* Claims about the stored session name *)

\* The final segment of the key path as written, percent-encoding decoded
DecodedLastSegment(path) == unquote(LastSegment(path))

\* C12: a retained session is stored under the final segment of the original
\* key path, case preserved, with percent-encoding decoded; the template test
\* compares this decoded name, so a segment Default%20Settings is the
\* template.
C12_StoredUnderDecodedLastSegment ==
    f_state = "returned" =>
        /\ \A i \in f_kept : DictHas(f_result, DecodedLastSegment(keys[i].k))
        /\ \A j \in 1..Len(f_result) :
               \E i \in f_kept : f_result[j].k = DecodedLastSegment(keys[i].k)
        /\ skip_default_settings =>
               \A i \in 1..Len(keys) :
                   DecodedLastSegment(keys[i].k) = Str("Default Settings") => i \notin f_kept

\* A key whose last segment has capitals and an encoded slash was stored
C12_Witness ==
    /\ f_state = "returned" /\ Len(keys) = 1
    /\ keys[1].k = SESSIONS_PREFIX \o Str("\\Prod%2FDB")
    /\ Len(f_result) = 1 /\ f_result[1].k = Str("Prod/DB")

-----------------------------------------------------------------------------
(* Claims about the parsed tree *)

\* The i-th line of the file as the loop sees it
ScannedLine(i) == RStripSet(p_lines[i], {13, 10})

\* The i-th line is a bracketed line
IsKeyLine(i) == KEY_LINE(ScannedLine(i)).ok

\* The path the i-th line declares, trimmed
DeclaredPath(i) == Strip(KEY_LINE(ScannedLine(i)).g1)

\* The line being scanned declares a path that is an entry already
Redeclares ==
    /\ p_state = "scan" /\ p_i < Len(p_lines)
    /\ IsKeyLine(p_i + 1)
    /\ DictHas(result, DeclaredPath(p_i + 1))

\* C13 as stated: every key path declared by a scanned bracketed line, the
\* empty path included, is an entry of the tree.
C13_EveryDeclaredPathIsEntry ==
    \A i \in 1..p_i : IsKeyLine(i) => DictHas(result, DeclaredPath(i))

\* C13: every non-empty key path declared by a scanned bracketed line (its
\* path trimmed) is an entry of the tree, also without value lines, and
\* declaring a path that is an entry already leaves the tree as it is.
C13_NonEmptyDeclaredPathIsEntry ==
    /\ [](\A i \in 1..p_i :
              (IsKeyLine(i) /\ DeclaredPath(i) # <<>>) => DictHas(result, DeclaredPath(i)))
    /\ [][Redeclares => result' = result]_vars

\* A path was declared, given a value and declared again (padded): one entry,
\* with the value
C13_Witness ==
    /\ p_state = "returned" /\ p_i = 3
    /\ IsKeyLine(1) /\ IsKeyLine(3) /\ ScannedLine(3) = Str("[ K ]")
    /\ result = <<[k |-> Str("K"), v |-> MkData({<<"A", IntVal(22)>>})]>>

\* The last bracketed line among the lines scanned so far; 0 when there is none
LastKeyLine ==
    IF \E i \in 1..p_i : IsKeyLine(i)
    THEN CHOOSE i \in 1..p_i : IsKeyLine(i) /\ \A j \in (i + 1)..p_i : ~IsKeyLine(j)
    ELSE 0

\* The line being scanned is a value line with tag dword or hex(1), after a
\* key line
IsValueAfterKey ==
    /\ ~IsKeyLine(p_i + 1)
    /\ VALUE_LINE(ScannedLine(p_i + 1)).ok
    /\ LastKeyLine # 0

\* The value the line being scanned assigns, decoded
AssignedValue ==
    LET value_m == VALUE_LINE(ScannedLine(p_i + 1))
    IN  IF value_m.g2 = Str("dword") THEN IntVal(decode_dword(value_m.g3))
        ELSE StrVal(decode_hex_string(value_m.g3))

\* The step stores name = val under path and changes nothing else
StoredUnder(path, name, val) ==
    /\ DictHas(result', path)
    /\ name \in DOMAIN DictGet(result', path)
    /\ DictGet(result', path)[name] = val
    /\ Len(result') = Len(result)
    /\ \A i \in 1..Len(result) :
           /\ result'[i].k = result[i].k
           /\ result[i].k # path => result'[i].v = result[i].v
           /\ result[i].k = path =>
                  /\ DOMAIN result'[i].v = DOMAIN result[i].v \cup {name}
                  /\ \A x \in DOMAIN result[i].v : x # name => result'[i].v[x] = result[i].v[x]

\* C14: while the lines are scanned, a line changes the tree only if it is a
\* bracketed line or a quoted-name assignment with tag dword or hex(1) seen
\* after a key line; such a value is stored under the key of the most recent
\* preceding key line only; every other line leaves the tree and the current
\* key unchanged.
C14_OnlyKeyAndValueLinesChangeTree ==
    [][(p_state = "scan" /\ p_i < Len(p_lines)) =>
          /\ IsValueAfterKey =>
                 StoredUnder(DeclaredPath(LastKeyLine),
                             VALUE_LINE(ScannedLine(p_i + 1)).g1, AssignedValue)
          /\ (~IsKeyLine(p_i + 1) /\ ~IsValueAfterKey) =>
                 /\ result' = result
                 /\ current_key' = current_key /\ have_key' = have_key]_vars

-----------------------------------------------------------------------------
(* Claims about keys that derive the same session name *)

\* The kept keys that derive the name n, by position in the tree
KeptWithName(n) == {i \in f_kept : DecodedLastSegment(keys[i].k) = n}

Maximum(S) == CHOOSE x \in S : \A y \in S : y <= x

\* C15: when two distinct key paths pass the inclusion tests and derive the
\* same session name, the result holds one entry for that name, with the
\* values of the key processed later; the values of the earlier key do not
\* survive, and the input tree is left unchanged.
C15_LaterKeyWins ==
    /\ [](f_state = "returned" =>
             \A i \in f_kept :
                 LET n == DecodedLastSegment(keys[i].k)
                 IN  /\ Cardinality({j \in 1..Len(f_result) : f_result[j].k = n}) = 1
                     /\ DictGet(f_result, n) = keys[Maximum(KeptWithName(n))].v)
    /\ [][keys' = keys]_vars

\* my%20session and my session were both kept; the entry has the values of
\* the second
C15_Witness ==
    /\ f_state = "returned" /\ f_kept = {1, 2}
    /\ keys[1].k = SESSIONS_PREFIX \o Str("\\my%20session")
    /\ keys[2].k = SESSIONS_PREFIX \o Str("\\my session")
    /\ keys[1].v[Str("HostName")] = StrVal(Str("h1"))
    /\ f_result = <<[k |-> Str("my session"), v |-> keys[2].v]>>
    /\ keys[2].v[Str("HostName")] = StrVal(Str("h2"))

-----------------------------------------------------------------------------
(* Claims about keys exported with the hive root *)

\* build_ssh_config(sessions) as a function of the mapping
\* [ok, text]; ok = FALSE is the ValueError of a build_host_block call
build_ssh_config(d) ==
    LET block(i) == build_host_block(session_names_sorted(d)[i],
                                     DictGet(d, session_names_sorted(d)[i]))
    IN  IF \A i \in 1..Len(d) : block(i).ok
        THEN [ok |-> TRUE, text |-> join_blocks([i \in 1..Len(d) |-> block(i).text])]
        ELSE [ok |-> FALSE, text |-> <<>>]

\* cli.main: the document built from the sessions the filter returned
PipelineConfig == build_ssh_config(f_result)

HiveRoot == Str("hkey_current_user")

\* The path is HKEY_CURRENT_USER\Software\SimonTatham\PuTTY\Sessions\<name>
IsHiveSessionKey(path) ==
    /\ Len(PathSegments(path)) = Len(ContainerSegments) + 2
    /\ SubSeq(PathSegments(path), 1, Len(ContainerSegments) + 1)
           = <<HiveRoot>> \o ContainerSegments

\* C16: a session key exported from the location the command-line help
\* names, HKEY_CURRENT_USER\Software\SimonTatham\PuTTY\Sessions\<name>, with
\* Protocol ssh and a non-empty HostName, is retained by filter_ssh_sessions
\* and gives a Host block in the output of the pipeline.
C16_HiveRootKeyRetained ==
    f_state = "returned" =>
        \A i \in 1..Len(keys) :
            ( /\ IsHiveSessionKey(keys[i].k)
              /\ IsStrAt(keys[i].v, Str("Protocol"))
              /\ Lower(Strip(keys[i].v[Str("Protocol")].v)) = Str("ssh")
              /\ IsStrAt(keys[i].v, Str("HostName"))
              /\ Strip(keys[i].v[Str("HostName")].v) # <<>>
              /\ ~(skip_default_settings
                   /\ DecodedLastSegment(keys[i].k) = Str("Default Settings")) )
            => /\ i \in f_kept
               /\ PipelineConfig.ok
               /\ StartsWith(PipelineConfig.text,
                             Str("Host ") \o _quote_value(DecodedLastSegment(keys[i].k)))

=============================================================================
